---- MODULE Spec2Model ----
(***************************************************************************)
(* Chunked extraction pipeline of the CPT extractor                        *)
(* (rag/shared_libraries/cpt_extractor.py, scripts/extract_cpt.py):        *)
(* chunk planning, the per-chunk generation call, response cleaning,       *)
(* JSONL / whole-text parsing, carried state and the artifacts written.    *)
(*                                                                         *)
(* Text is a sequence of tokens.  A string-literal token such as "code"    *)
(* stands for the JSON text "\"code\"", a number token for its digits.     *)
(* JSON values are trees [kind, atom, keys, items]; the None of Python is the   *)
(* JSON null.                                                              *)
(***************************************************************************)
EXTENDS Integers, Sequences, FiniteSets, TLC

\* ------------------------------------------------------------------ bounds
MaxPage == 3
MaxChunkSize == 2

\* ------------------------------------------------------------------ tokens
\* The string-literal token of a string of digits carries its quotes, which
\* tells it from the number token of the same digits.
Quote(s) == "\"" \o s \o "\""
\* Strings of the page-map cache file: entry keys, file ids, member paths,
\* anchor ids and str(page) for the page numbers the model can index.
MaxKey == MaxPage + 2
FileIds == {"fA", "fB", "fC"}
PathOf(f) == "OEBPS/" \o f \o ".xhtml"
AnchorOf(p) == "page_" \o ToString(p)
CacheTok ==
  {"file_id", "full_path", "anchor_id"} \cup FileIds \cup {PathOf(f) : f \in FileIds}
    \cup {AnchorOf(p) : p \in 0..MaxKey} \cup {Quote(ToString(p)) : p \in 0..MaxKey}
StrTok == {"code", "a", "b", "c"} \cup CacheTok
NumTok == {"1", "5"}
Ws == {" ", "\n"}
\* The three-backquote markdown fence marker, as one token.
FENCE == "<fence>"

\* ------------------------------------------------------------- JSON values
JNull == [kind |-> "null", atom |-> "", keys |-> <<>>, items |-> <<>>]
JStr(s) == [kind |-> "str", atom |-> s, keys |-> <<>>, items |-> <<>>]
JNum(n) == [kind |-> "num", atom |-> n, keys |-> <<>>, items |-> <<>>]
JArr(its) == [kind |-> "arr", atom |-> "", keys |-> <<>>, items |-> its]
JObj(ks, its) == [kind |-> "obj", atom |-> "", keys |-> ks, items |-> its]

\* Python truth value of a decoded JSON value (bool(x)).
Truthy(v) ==
  CASE v.kind = "null" -> FALSE
    [] v.kind = "obj" -> v.keys # <<>>
    [] v.kind = "arr" -> v.items # <<>>
    [] v.kind = "num" -> v.atom # "0"
    [] OTHER -> v.atom # ""

\* isinstance(x, dict): the only decoded value that has a .get method.
IsDict(v) == v.kind = "obj"

\* isinstance(x, list)
IsList(v) == v.kind = "arr"

\* ------------------------------------------------------------ str helpers
RECURSIVE LStrip(_)
LStrip(t) ==
  IF t # <<>> /\ Head(t) \in Ws THEN LStrip(Tail(t)) ELSE t

RECURSIVE RStrip(_)
RStrip(t) ==
  IF t # <<>> /\ t[Len(t)] \in Ws THEN RStrip(SubSeq(t, 1, Len(t) - 1)) ELSE t

\* str.strip()
Strip(t) == RStrip(LStrip(t))

\* str.startswith(p)
StartsWith(t, p) == Len(t) >= Len(p) /\ SubSeq(t, 1, Len(p)) = p

\* str.endswith(p)
EndsWith(t, p) == Len(t) >= Len(p) /\ SubSeq(t, Len(t) - Len(p) + 1, Len(t)) = p

\* str.split(newline): always at least one (possibly empty) piece.
RECURSIVE SplitAcc(_, _, _)
SplitAcc(t, cur, acc) ==
  IF t = <<>> THEN Append(acc, cur)
  ELSE IF Head(t) = "\n" THEN SplitAcc(Tail(t), <<>>, Append(acc, cur))
  ELSE SplitAcc(Tail(t), Append(cur, Head(t)), acc)

SplitLines(t) == SplitAcc(t, <<>>, <<>>)

\* ------------------------------------------------------------ json.loads
PFail == [ok |-> FALSE, val |-> JNull, pos |-> 0]
POk(v, p) == [ok |-> TRUE, val |-> v, pos |-> p]

RECURSIVE SkipWs(_, _)
SkipWs(t, p) ==
  IF p <= Len(t) /\ t[p] \in Ws THEN SkipWs(t, p + 1) ELSE p

\* dict[key] = value: a repeated key keeps its position and takes the new value.
RECURSIVE KeyIndex(_, _, _)
KeyIndex(ks, k, n) ==
  IF n > Len(ks) THEN 0
  ELSE IF ks[n] = k THEN n
  ELSE KeyIndex(ks, k, n + 1)

DictPut(o, k, v) ==
  LET n == KeyIndex(o.keys, k, 1) IN
    IF n = 0 THEN JObj(Append(o.keys, k), Append(o.items, v))
    ELSE JObj(o.keys, [o.items EXCEPT ![n] = v])

RECURSIVE ParseValue(_, _)
RECURSIVE ParseElems(_, _, _)
RECURSIVE ParseMembers(_, _, _)

\* scanner "scan_once": one JSON value starting exactly at position p.
ParseValue(t, p) ==
  IF p > Len(t) THEN PFail
  ELSE IF t[p] \in StrTok THEN POk(JStr(t[p]), p + 1)
  ELSE IF t[p] \in NumTok THEN POk(JNum(t[p]), p + 1)
  ELSE IF t[p] = "null" THEN POk(JNull, p + 1)
  ELSE IF t[p] = "[" THEN
    LET q == SkipWs(t, p + 1) IN
      IF q <= Len(t) /\ t[q] = "]" THEN POk(JArr(<<>>), q + 1)
      ELSE ParseElems(t, q, <<>>)
  ELSE IF t[p] = "{" THEN
    LET q == SkipWs(t, p + 1) IN
      IF q <= Len(t) /\ t[q] = "}" THEN POk(JObj(<<>>, <<>>), q + 1)
      ELSE ParseMembers(t, q, JObj(<<>>, <<>>))
  ELSE PFail

\* JSONArray: value (comma value)* close-bracket
ParseElems(t, p, acc) ==
  LET r == ParseValue(t, p) IN
    IF ~r.ok THEN PFail
    ELSE
      LET q == SkipWs(t, r.pos) IN
        IF q > Len(t) THEN PFail
        ELSE IF t[q] = "]" THEN POk(JArr(Append(acc, r.val)), q + 1)
        ELSE IF t[q] = "," THEN ParseElems(t, SkipWs(t, q + 1), Append(acc, r.val))
        ELSE PFail

\* JSONObject: string colon value (comma string colon value)* close-brace
ParseMembers(t, p, o) ==
  IF p > Len(t) \/ ~(t[p] \in StrTok) THEN PFail
  ELSE
    LET c == SkipWs(t, p + 1) IN
      IF c > Len(t) \/ t[c] # ":" THEN PFail
      ELSE
        LET r == ParseValue(t, SkipWs(t, c + 1)) IN
          IF ~r.ok THEN PFail
          ELSE
            LET q == SkipWs(t, r.pos) IN
              IF q > Len(t) THEN PFail
              ELSE IF t[q] = "}" THEN POk(DictPut(o, t[p], r.val), q + 1)
              ELSE IF t[q] = "," THEN
                ParseMembers(t, SkipWs(t, q + 1), DictPut(o, t[p], r.val))
              ELSE PFail

\* json.loads(s): one value, surrounded by optional whitespace, then the end
\* of the text; anything else is a JSONDecodeError (ok = FALSE).
JsonLoads(t) ==
  LET r == ParseValue(t, SkipWs(t, 1)) IN
    IF r.ok /\ SkipWs(t, r.pos) = Len(t) + 1 THEN r ELSE PFail

\* ------------------------------------------------------------ json.dumps
RECURSIVE JsonDumps(_)
RECURSIVE DumpItems(_, _)
RECURSIVE DumpMembers(_, _, _)

DumpItems(its, n) ==
  IF n > Len(its) THEN <<>>
  ELSE (IF n > 1 THEN <<",", " ">> ELSE <<>>) \o JsonDumps(its[n]) \o DumpItems(its, n + 1)

DumpMembers(ks, its, n) ==
  IF n > Len(ks) THEN <<>>
  ELSE (IF n > 1 THEN <<",", " ">> ELSE <<>>) \o <<ks[n], ":", " ">>
       \o JsonDumps(its[n]) \o DumpMembers(ks, its, n + 1)

\* json.dumps(v) with the default separators (comma-space, colon-space).
JsonDumps(v) ==
  CASE v.kind = "null" -> <<"null">>
    [] v.kind = "obj" -> <<"{">> \o DumpMembers(v.keys, v.items, 1) \o <<"}">>
    [] v.kind = "arr" -> <<"[">> \o DumpItems(v.items, 1) \o <<"]">>
    [] OTHER -> <<v.atom>>

\* ------------------------------------------------- navigator (documents)
\* A document is the archive the navigator opens: its spine (content-file ids
\* in reading order) and, per content file, the page numbers of its
\* span id="page_N" markers in document order, its plain text
\* (soup.get_text), whether reading it succeeds (z.read / decode) and its
\* h1..h4 headings in document order. Every spine file has a manifest entry.
FileH(ms, txt, ok, hs) == [markers |-> ms, text |-> txt, readable |-> ok, heads |-> hs]
File(ms, txt, ok) == FileH(ms, txt, ok, <<>>)

\* A heading element: its level (1 for h1 .. 4 for h4) and the strings inside
\* it, in order.
H(l, ps) == [level |-> l, pieces |-> ps]

\* The end-to-end scenario: pages 1, 2 in fA and page 3 in fB.
D_Scenario ==
  [spine |-> <<"fA", "fB">>,
   files |-> [fA |-> File(<<1, 2>>, <<"tA">>, TRUE), fB |-> File(<<3>>, <<"tB">>, TRUE)]]
\* One page per file.
D_Three ==
  [spine |-> <<"fA", "fB", "fC">>,
   files |-> [fA |-> File(<<1>>, <<"tA">>, TRUE), fB |-> File(<<2>>, <<"tB">>, TRUE),
              fC |-> File(<<3>>, <<"tC">>, TRUE)]]
\* The marker of page 1 occurs in fA and again in fB.
D_Dup ==
  [spine |-> <<"fA", "fB">>,
   files |-> [fA |-> File(<<1, 2>>, <<"tA">>, TRUE), fB |-> File(<<1, 3>>, <<"tB">>, TRUE)]]
\* The file of page 3 precedes the file of pages 1 and 2 in the spine.
D_Reversed ==
  [spine |-> <<"fA", "fB", "fC">>,
   files |-> [fA |-> File(<<3>>, <<"tA">>, TRUE), fB |-> File(<<1, 2>>, <<"tB">>, TRUE),
              fC |-> File(<<>>, <<"tC">>, TRUE)]]
\* Page 2 lies in fB, between pages 1 and 3 of fA.
D_Interleaved ==
  [spine |-> <<"fA", "fB">>,
   files |-> [fA |-> File(<<1, 3>>, <<"tA">>, TRUE), fB |-> File(<<2>>, <<"tB">>, TRUE)]]
\* Page 2 has no marker.
D_Gap ==
  [spine |-> <<"fA", "fB">>,
   files |-> [fA |-> File(<<1>>, <<"tA">>, TRUE), fB |-> File(<<3>>, <<"tB">>, TRUE)]]
\* Reading fB fails.
D_Unreadable ==
  [spine |-> <<"fA", "fB", "fC">>,
   files |-> [fA |-> File(<<1>>, <<"tA">>, TRUE), fB |-> File(<<2>>, <<"tB">>, FALSE),
              fC |-> File(<<3>>, <<"tC">>, TRUE)]]
\* fA carries two page markers and no text at all.
D_EmptyText ==
  [spine |-> <<"fA", "fB">>,
   files |-> [fA |-> File(<<1, 2>>, <<>>, TRUE), fB |-> File(<<3>>, <<"tB">>, TRUE)]]

\* Two h1 headings in the file of page 1.
D_HMedicine ==
  [spine |-> <<"fA">>,
   files |-> [fA |-> FileH(<<1>>, <<"tA">>, TRUE, <<H(1, <<"Surgery">>), H(1, <<"Medicine">>)>>)]]
\* Headings of the four levels spread over three files.
D_HNested ==
  [spine |-> <<"fA", "fB", "fC">>,
   files |-> [fA |-> FileH(<<1>>, <<"tA">>, TRUE,
                           <<H(1, <<"Surgery">>), H(2, <<"General">>), H(2, <<"Skin">>)>>),
              fB |-> FileH(<<2>>, <<"tB">>, TRUE, <<H(3, <<"\n", "Incision", " ">>)>>),
              fC |-> FileH(<<3>>, <<"tC">>, TRUE, <<H(4, <<"Drainage">>), H(2, <<"Repair">>)>>)]]
\* fB cannot be read; the headings before it are in fA.
D_HUnreadable ==
  [spine |-> <<"fA", "fB", "fC">>,
   files |-> [fA |-> FileH(<<1>>, <<"tA">>, TRUE, <<H(1, <<"Surgery">>), H(3, <<"Skin">>)>>),
              fB |-> FileH(<<>>, <<>>, FALSE, <<>>),
              fC |-> FileH(<<2, 3>>, <<"tC">>, TRUE, <<H(2, <<"Repair">>)>>)]]
\* The h1 of the file of page 2 has no text; no file has an h4.
D_HEmptyHeading ==
  [spine |-> <<"fA", "fB">>,
   files |-> [fA |-> FileH(<<1>>, <<"tA">>, TRUE, <<H(1, <<"Surgery">>), H(2, <<"General">>)>>),
              fB |-> FileH(<<2>>, <<"tB">>, TRUE, <<H(1, <<>>), H(3, <<"Skin">>)>>)]]

\* The file of page 1 has headings of all four levels; fA is never reached.
D_HEarlyStop ==
  [spine |-> <<"fA", "fB">>,
   files |-> [fA |-> FileH(<<>>, <<"tA">>, TRUE, <<H(1, <<"Surgery">>)>>),
              fB |-> FileH(<<1>>, <<"tB">>, TRUE,
                           <<H(1, <<"Medicine">>), H(2, <<"General">>), H(3, <<"Skin">>),
                             H(4, <<"Repair">>)>>)]]

\* The file of page 3 and the file before it hold all four levels between
\* them; fA has headings of its own and is never reached from page 3.
D_HMidStop ==
  [spine |-> <<"fA", "fB", "fC">>,
   files |-> [fA |-> FileH(<<1>>, <<"tA">>, TRUE, <<H(1, <<"Surgery">>), H(4, <<"Skin">>)>>),
              fB |-> FileH(<<2>>, <<"tB">>, TRUE, <<H(1, <<"Medicine">>), H(2, <<"General">>)>>),
              fC |-> FileH(<<3>>, <<"tC">>, TRUE, <<H(3, <<"Repair">>), H(4, <<"Drainage">>)>>)]]

HierDocs == {D_HMedicine, D_HNested, D_HUnreadable, D_HEmptyHeading, D_HEarlyStop, D_HMidStop}

NavDocs ==
  {D_Scenario, D_Three, D_Dup, D_Reversed, D_Interleaved, D_Gap, D_Unreadable, D_EmptyText}
    \cup HierDocs

\* The documents the extraction driver is run on.
DriverDocs == {D_Scenario, D_Gap, D_Reversed}

\* The page index before it is built.
NoPages == [p \in {} |-> ""]

\* _build_page_map, inner loop: page_map[page_num] = {file_id: item_id, ...}
\* for each marker of one file. The assignment replaces an earlier entry of
\* the same page number. The index keeps the owning file id of each page (the
\* anchor id is "page_N" for page N whatever the file).
RECURSIVE ScanMarkers(_, _, _, _)
ScanMarkers(ms, k, f, pm) ==
  IF k > Len(ms) THEN pm
  ELSE ScanMarkers(ms, k + 1, f, (ms[k] :> f) @@ pm)

\* Variant: the first read that raises ends the scan.
RECURSIVE ScanFilesAbort(_, _, _)
ScanFilesAbort(d, n, pm) ==
  IF n > Len(d.spine) THEN pm
  ELSE
    LET f == d.spine[n] IN
      IF d.files[f].readable
      THEN ScanFilesAbort(d, n + 1, ScanMarkers(d.files[f].markers, 1, f, pm))
      ELSE pm

\* _build_page_map, outer loop: every spine file in order; a file whose read
\* raises is reported and contributes nothing.
RECURSIVE ScanFiles(_, _, _)
ScanFiles(d, n, pm) ==
  IF n > Len(d.spine) THEN pm
  ELSE
    LET f == d.spine[n] IN
      IF d.files[f].readable
      THEN ScanFiles(d, n + 1, ScanMarkers(d.files[f].markers, 1, f, pm))
      ELSE ScanFiles(d, n + 1, pm)

\* EPUBNavigator._build_page_map without a cache file.
BuildPageMap(d) == ScanFiles(d, 1, NoPages)

\* The z.read calls of the scan loop: one per spine file, in spine order,
\* whether or not the read succeeds.
RECURSIVE ScanReads(_, _)
ScanReads(d, n) ==
  IF n > Len(d.spine) THEN <<>>
  ELSE <<d.spine[n]>> \o ScanReads(d, n + 1)

Min(a, b) == IF a <= b THEN a ELSE b
Max(a, b) == IF a >= b THEN a ELSE b

\* Variant: pages[-1] taken where pages[0] is meant.
MinOfLast(S) == CHOOSE x \in S : \A y \in S : x >= y
MinOf(S) == CHOOSE x \in S : \A y \in S : x <= y
\* Variant: pages[0] taken where pages[-1] is meant.
MaxOfFirst(S) == CHOOSE x \in S : \A y \in S : x <= y
MaxOf(S) == CHOOSE x \in S : \A y \in S : x >= y

\* ---------------------------------------------------------- page-map cache
\* The cache file epub_path + ".pagemap.json": absent, or a text.
NoCacheFile == [present |-> FALSE, text |-> <<>>]
CacheFile(t) == [present |-> TRUE, text |-> t]

\* One value of the page map: {file_id, full_path, anchor_id}.
PageInfo(p, f) ==
  JObj(<<"file_id", "full_path", "anchor_id">>,
       <<JStr(f), JStr(PathOf(f)), JStr(AnchorOf(p))>>)

\* The keys of page_map in the order the scan inserted them: a dict keeps a
\* key at the place of its first assignment, a later assignment to the same
\* key changes the value only.
RECURSIVE ScanKeyMarkers(_, _, _)
ScanKeyMarkers(ms, k, keys) ==
  IF k > Len(ms) THEN keys
  ELSE IF \E j \in 1..Len(keys) : keys[j] = ms[k]
       THEN ScanKeyMarkers(ms, k + 1, keys)
       ELSE ScanKeyMarkers(ms, k + 1, Append(keys, ms[k]))

RECURSIVE ScanKeyFiles(_, _, _)
ScanKeyFiles(d, n, keys) ==
  IF n > Len(d.spine) THEN keys
  ELSE
    LET f == d.spine[n] IN
      IF d.files[f].readable
      THEN ScanKeyFiles(d, n + 1, ScanKeyMarkers(d.files[f].markers, 1, keys))
      ELSE ScanKeyFiles(d, n + 1, keys)

\* The key order of the dict _build_page_map has built by scanning d.
PageOrder(d) == ScanKeyFiles(d, 1, <<>>)

\* The page map as the dict json.dump receives, its entries in the order
\* keys; json writes an int key as the string of its decimal digits.
RECURSIVE PageMapEntries(_, _, _, _)
PageMapEntries(pm, keys, n, o) ==
  IF n > Len(keys) THEN o
  ELSE IF keys[n] \in DOMAIN pm
       THEN PageMapEntries(pm, keys, n + 1,
                           DictPut(o, Quote(ToString(keys[n])), PageInfo(keys[n], pm[keys[n]])))
       ELSE PageMapEntries(pm, keys, n + 1, o)

\* json.dump(page_map, f) for a page map whose keys were inserted in the
\* order keys.
CacheText(pm, keys) == JsonDumps(PageMapEntries(pm, keys, 1, JObj(<<>>, <<>>)))

\* Variant: int(k) - 1, the key taken as a zero-based position.
IntOfKeyZeroBased(k) ==
  IF \E n \in 0..MaxKey : Quote(ToString(n)) = k
  THEN [ok |-> TRUE, val |-> (CHOOSE n \in 0..MaxKey : Quote(ToString(n)) = k) - 1]
  ELSE [ok |-> FALSE, val |-> 0]

\* int(k) for a key of the loaded cache: ValueError (ok = FALSE) when the
\* key is not a string of digits.
IntOfKey(k) ==
  IF \E n \in 0..MaxKey : Quote(ToString(n)) = k
  THEN [ok |-> TRUE, val |-> CHOOSE n \in 0..MaxKey : Quote(ToString(n)) = k]
  ELSE [ok |-> FALSE, val |-> 0]

\* v["file_id"] of a loaded entry.
FileIdOf(v) == v.items[KeyIndex(v.keys, "file_id", 1)].atom

\* with open(cache_path) as f: data = json.load(f);
\* return {int(k): v for k, v in data.items()}.  Any exception (text that is
\* not JSON, a value without .items, a key int() rejects) gives ok = FALSE.
LoadCache(t) ==
  LET r == JsonLoads(t) IN
    IF ~r.ok \/ r.val.kind # "obj" THEN [ok |-> FALSE, pm |-> NoPages]
    ELSE IF \E n \in 1..Len(r.val.keys) : ~IntOfKey(r.val.keys[n]).ok
         THEN [ok |-> FALSE, pm |-> NoPages]
    ELSE [ok |-> TRUE,
          pm |-> [p \in {IntOfKey(r.val.keys[n]).val : n \in 1..Len(r.val.keys)} |->
                    FileIdOf(r.val.items[CHOOSE n \in 1..Len(r.val.keys) :
                                           IntOfKey(r.val.keys[n]).val = p])]]

\* Variant: a cache that fails to load ends construction with an empty index.
BuildWithCacheNoRebuild(d, c, can_write) ==
  IF c.present
  THEN [pm |-> LoadCache(c.text).pm, scanned |-> <<>>, cache |-> c]
  ELSE [pm |-> BuildPageMap(d), scanned |-> ScanReads(d, 1),
        cache |-> IF can_write THEN CacheFile(CacheText(BuildPageMap(d), PageOrder(d))) ELSE c]

\* Variant: the scanned index is saved only when every spine file was read.
BuildWithCacheSaveComplete(d, c, can_write) ==
  IF c.present /\ LoadCache(c.text).ok
  THEN [pm |-> LoadCache(c.text).pm, scanned |-> <<>>, cache |-> c]
  ELSE [pm |-> BuildPageMap(d), scanned |-> ScanReads(d, 1),
        cache |-> IF can_write /\ \A n \in 1..Len(d.spine) : d.files[d.spine[n]].readable
                  THEN CacheFile(CacheText(BuildPageMap(d), PageOrder(d))) ELSE c]

\* EPUBNavigator._build_page_map: the cache is loaded when it is present and
\* loads; otherwise the spine is scanned and the result is written to the
\* cache (a failed write is reported and leaves the file as it was).
BuildWithCache(d, c, can_write) ==
  IF c.present /\ LoadCache(c.text).ok
  THEN [pm |-> LoadCache(c.text).pm, scanned |-> <<>>, cache |-> c]
  ELSE [pm |-> BuildPageMap(d), scanned |-> ScanReads(d, 1),
        cache |-> IF can_write THEN CacheFile(CacheText(BuildPageMap(d), PageOrder(d))) ELSE c]

\* ------------------------------------------------- get_content_by_page_range
\* Decimal text of a page number inside an f-string.
PageTok(p) == ToString(p)

\* Variant: the missing start page is reported by an empty string.
ErrorTextEmpty(p) == <<>>

\* The string returned when start_page has no index entry.
ErrorText(p) == <<"Error: Start page ", PageTok(p), " not found.">>

\* Variant: content = [text], only the file read last is kept.
AppendContentReplace(content, text) == <<text>>

\* content.append(text)
AppendContent(content, text) == Append(content, text)

\* "\n".join(content)
RECURSIVE JoinLines(_)
JoinLines(content) ==
  IF content = <<>> THEN <<>>
  ELSE IF Len(content) = 1 THEN content[1]
  ELSE content[1] \o <<"\n">> \o JoinLines(Tail(content))

\* The loop over self.spine. sf is the file of start_page; has_end and ef are
\* end_info and its file. Files before the start file are passed over without
\* a read; a read that raises is reported and the loop goes on; the loop ends
\* after a successful read of the end file.
RECURSIVE GetTextLoop(_, _, _, _, _, _, _, _)
GetTextLoop(d, sf, has_end, ef, n, collecting, content, reads) ==
  IF n > Len(d.spine) THEN [text |-> JoinLines(content), reads |-> reads]
  ELSE
    LET f == d.spine[n] IN
      IF ~collecting /\ f # sf
      THEN GetTextLoop(d, sf, has_end, ef, n + 1, collecting, content, reads)
      ELSE IF ~d.files[f].readable
      THEN GetTextLoop(d, sf, has_end, ef, n + 1, collecting, content, Append(reads, f))
      ELSE
        LET col == collecting \/ f = sf
            con == IF col THEN AppendContent(content, d.files[f].text) ELSE content
        IN IF has_end /\ f = ef
           THEN [text |-> JoinLines(con), reads |-> Append(reads, f)]
           ELSE GetTextLoop(d, sf, has_end, ef, n + 1, col, con, Append(reads, f))

\* Variant: the stop file is the file of end_page itself, not of end_page + 1.
GetTextStopAtEndPage(d, pm, start_page, end_page) ==
  IF ~(start_page \in DOMAIN pm)
  THEN [text |-> ErrorText(start_page), reads |-> <<>>]
  ELSE GetTextLoop(d, pm[start_page], end_page \in DOMAIN pm,
                   IF end_page \in DOMAIN pm THEN pm[end_page] ELSE "",
                   1, FALSE, <<>>, <<>>)

\* Variant: without an entry for end_page + 1 the start file is the stop file.
GetTextTruncating(d, pm, start_page, end_page) ==
  IF ~(start_page \in DOMAIN pm)
  THEN [text |-> ErrorText(start_page), reads |-> <<>>]
  ELSE GetTextLoop(d, pm[start_page], TRUE,
                   IF (end_page + 1) \in DOMAIN pm THEN pm[end_page + 1] ELSE pm[start_page],
                   1, FALSE, <<>>, <<>>)

\* EPUBNavigator.get_content_by_page_range: the returned text, and the content
\* files whose read was attempted, in order.
GetText(d, pm, start_page, end_page) ==
  IF ~(start_page \in DOMAIN pm)
  THEN [text |-> ErrorText(start_page), reads |-> <<>>]
  ELSE GetTextLoop(d, pm[start_page], (end_page + 1) \in DOMAIN pm,
                   IF (end_page + 1) \in DOMAIN pm THEN pm[end_page + 1] ELSE "",
                   1, FALSE, <<>>, <<>>)

\* ---------------------------------------------------- get_hierarchy_context
\* A context value: None, or the text of a heading.
None == [some |-> FALSE, text |-> <<>>]
Some(t) == [some |-> TRUE, text |-> t]

\* The four heading levels of the context dict (the *_text keys stay None).
NoContext == [section |-> None, subsection |-> None, subheading |-> None, topic |-> None]

\* tag.get_text(strip=True): the strings of the element, each stripped, the
\* empty ones dropped, joined without a separator.
HeadingText(ps) == SelectSeq(ps, LAMBDA x : ~(x \in Ws))

\* Variant: the first occurrence, soup.find_all(tag)[0].
FirstHeading(hs, l) ==
  LET ns == {n \in 1..Len(hs) : hs[n].level = l} IN
    IF ns = {} THEN None ELSE Some(HeadingText(hs[MinOf(ns)].pieces))

\* hN = soup.find_all(tag); if hN: hN[-1].get_text(strip=True)
LastHeading(hs, l) ==
  LET ns == {n \in 1..Len(hs) : hs[n].level = l} IN
    IF ns = {} THEN None ELSE Some(HeadingText(hs[MaxOf(ns)].pieces))

\* if context[key] is None: take the last heading of the level, if any.
FillLevel(cur, hs, l) == IF cur.some THEN cur ELSE LastHeading(hs, l)

\* The four fills of one file, in the order topic, subheading, subsection,
\* section.
FillFile(ctx, hs) ==
  [topic |-> FillLevel(ctx.topic, hs, 4), subheading |-> FillLevel(ctx.subheading, hs, 3),
   subsection |-> FillLevel(ctx.subsection, hs, 2), section |-> FillLevel(ctx.section, hs, 1)]

AllResolved(ctx) ==
  ctx.section.some /\ ctx.subsection.some /\ ctx.subheading.some /\ ctx.topic.some

\* Variant: a read error ends the walk (break where the code has continue).
RECURSIVE WalkBackStopOnError(_, _, _, _)
WalkBackStopOnError(d, i, ctx, reads) ==
  IF i < 1 THEN [ctx |-> ctx, reads |-> reads, raised |-> FALSE]
  ELSE
    LET f == d.spine[i] IN
      IF ~d.files[f].readable
      THEN [ctx |-> ctx, reads |-> Append(reads, f), raised |-> FALSE]
      ELSE IF AllResolved(FillFile(ctx, d.files[f].heads))
           THEN [ctx |-> FillFile(ctx, d.files[f].heads), reads |-> Append(reads, f),
                 raised |-> FALSE]
           ELSE WalkBackStopOnError(d, i - 1, FillFile(ctx, d.files[f].heads), Append(reads, f))

\* Variant: the walk goes on to the start of the spine (no break).
RECURSIVE WalkBackNoBreak(_, _, _, _)
WalkBackNoBreak(d, i, ctx, reads) ==
  IF i < 1 THEN [ctx |-> ctx, reads |-> reads, raised |-> FALSE]
  ELSE
    LET f == d.spine[i] IN
      IF ~d.files[f].readable
      THEN WalkBackNoBreak(d, i - 1, ctx, Append(reads, f))
      ELSE WalkBackNoBreak(d, i - 1, FillFile(ctx, d.files[f].heads), Append(reads, f))

\* for i in range(start_index, -1, -1): read the file, fill the unresolved
\* levels, stop when all four are resolved; a read that raises is skipped.
RECURSIVE WalkBack(_, _, _, _)
WalkBack(d, i, ctx, reads) ==
  IF i < 1 THEN [ctx |-> ctx, reads |-> reads, raised |-> FALSE]
  ELSE
    LET f == d.spine[i] IN
      IF ~d.files[f].readable
      THEN WalkBack(d, i - 1, ctx, Append(reads, f))
      ELSE IF AllResolved(FillFile(ctx, d.files[f].heads))
           THEN [ctx |-> FillFile(ctx, d.files[f].heads), reads |-> Append(reads, f),
                 raised |-> FALSE]
           ELSE WalkBack(d, i - 1, FillFile(ctx, d.files[f].heads), Append(reads, f))

\* self.spine.index(file_id): the position, 0 standing for ValueError.
IndexOf(sp, f) ==
  IF \E n \in 1..Len(sp) : sp[n] = f
  THEN MinOf({n \in 1..Len(sp) : sp[n] = f})
  ELSE 0

\* EPUBNavigator.get_hierarchy_context(page_number)
Resolve(d, pm, page_number) ==
  IF ~(page_number \in DOMAIN pm)
  THEN [ctx |-> NoContext, reads |-> <<>>, raised |-> FALSE]
  ELSE IF IndexOf(d.spine, pm[page_number]) = 0
       THEN [ctx |-> NoContext, reads |-> <<>>, raised |-> TRUE]
       ELSE WalkBack(d, IndexOf(d.spine, pm[page_number]), NoContext, <<>>)

\* ------------------------------------------------------ chapter boundaries
\* EPUBNavigator.get_chapter_boundaries: one boundary per spine file that owns
\* a page, in spine order, with the smallest and largest page of the file.
RECURSIVE BoundariesFrom(_, _, _)
BoundariesFrom(sp, pm, n) ==
  IF n > Len(sp) THEN <<>>
  ELSE
    LET pages == {p \in DOMAIN pm : pm[p] = sp[n]} IN
      (IF pages = {} THEN <<>>
       ELSE <<[file_id |-> sp[n], start_page |-> MinOf(pages), end_page |-> MaxOf(pages)]>>)
      \o BoundariesFrom(sp, pm, n + 1)

get_chapter_boundaries(sp, pm) == BoundariesFrom(sp, pm, 1)

\* ----------------------------------------------------------- chunk planner
\* Variant: current_end = current_start + chunk_size - 1, not clipped to end.
RECURSIVE FixedChunksUnclipped(_, _, _)
FixedChunksUnclipped(cur, end, size) ==
  IF cur > end THEN <<>>
  ELSE <<<<cur, cur + size - 1>>>> \o FixedChunksUnclipped(cur + size, end, size)

\* main: for current_start in range(start, end + 1, chunk_size)
RECURSIVE FixedChunks(_, _, _)
FixedChunks(cur, end, size) ==
  IF cur > end THEN <<>>
  ELSE <<<<cur, Min(cur + size - 1, end)>>>> \o FixedChunks(cur + size, end, size)

\* Variant: each boundary clipped to the requested range.
RECURSIVE ChapterChunksClipped(_, _, _, _)
ChapterChunksClipped(bs, n, start, end) ==
  IF n > Len(bs) THEN <<>>
  ELSE (IF Max(bs[n].start_page, start) <= Min(bs[n].end_page, end)
        THEN <<<<Max(bs[n].start_page, start), Min(bs[n].end_page, end)>>>> ELSE <<>>)
       \o ChapterChunksClipped(bs, n + 1, start, end)

\* main: boundaries overlapping [start, end], each with its own page range
RECURSIVE ChapterChunks(_, _, _, _)
ChapterChunks(bs, n, start, end) ==
  IF n > Len(bs) THEN <<>>
  ELSE (IF Max(bs[n].start_page, start) <= Min(bs[n].end_page, end)
        THEN <<<<bs[n].start_page, bs[n].end_page>>>> ELSE <<>>)
       \o ChapterChunks(bs, n + 1, start, end)

PlanChunks(a, sp, pm) ==
  IF a.by_chapter THEN ChapterChunks(get_chapter_boundaries(sp, pm), 1, a.start, a.end)
  ELSE FixedChunks(a.start, a.end, a.chunk_size)

\* ------------------------------------------------------ response cleaning
\* extract_pages: strip, drop a leading fence+json, drop a leading fence,
\* drop a trailing fence, strip again.
CleanResponse(text) ==
  LET c0 == Strip(text)
      c1 == IF StartsWith(c0, <<FENCE, "json">>) THEN SubSeq(c0, 3, Len(c0)) ELSE c0
      c2 == IF StartsWith(c1, <<FENCE>>) THEN SubSeq(c1, 2, Len(c1)) ELSE c1
      c3 == IF EndsWith(c2, <<FENCE>>) THEN SubSeq(c2, 1, Len(c2) - 1) ELSE c2
  IN Strip(c3)

\* extract_pages: the text returned when the generation call raises.
ExceptionResult == <<"[", "]">>

\* ------------------------------------------------------------ chunk parse
\* main: the JSONL loop. Each non-blank stripped line that json.loads accepts
\* is appended; a line raising JSONDecodeError is passed over.
RECURSIVE JsonlLoop(_, _, _)
JsonlLoop(lines, n, acc) ==
  IF n > Len(lines) THEN acc
  ELSE
    LET line == Strip(lines[n]) IN
      IF line = <<>> THEN JsonlLoop(lines, n + 1, acc)
      ELSE
        LET r == JsonLoads(line) IN
          JsonlLoop(lines, n + 1, IF r.ok THEN Append(acc, r.val) ELSE acc)

\* Variant: one bad line makes the whole line parse come out empty.
JsonlParseStrict(text) ==
  LET lines == SplitLines(Strip(text)) IN
    IF \E n \in 1..Len(lines) : Strip(lines[n]) # <<>> /\ ~JsonLoads(Strip(lines[n])).ok
    THEN <<>>
    ELSE JsonlLoop(lines, 1, <<>>)

JsonlParse(text) == JsonlLoop(SplitLines(Strip(text)), 1, <<>>)

\* main: the whole-text fallback. A list is taken as it is, a dict is wrapped,
\* anything else (or a parse error) leaves chunk_codes empty.
FallbackParse(text) ==
  LET r == JsonLoads(text) IN
    IF r.ok /\ IsList(r.val) THEN r.val.items
    ELSE IF r.ok /\ IsDict(r.val) THEN <<r.val>>
    ELSE <<>>

\* Variant: the whole text is parsed first, the lines only when that fails.
ChunkCodesWholeFirst(text) ==
  IF FallbackParse(text) # <<>> THEN FallbackParse(text) ELSE JsonlParse(text)

\* main: chunk_codes after both parse attempts.
ChunkCodes(text) ==
  LET jsonl == JsonlParse(text) IN
    IF jsonl # <<>> THEN jsonl ELSE FallbackParse(text)

\* Variant: all_codes = chunk_codes instead of all_codes.extend(chunk_codes).
ExtendCodesReplace(all, codes) == codes

\* main: all_codes.extend(chunk_codes)
ExtendCodes(all, codes) == all \o codes

\* Variant: a chunk without records clears the carried record.
NextLastCodeReset(prev, codes) == IF codes # <<>> THEN codes[Len(codes)] ELSE JNull

\* Variant: last_code_context = chunk_codes[0].
NextLastCodeFirst(prev, codes) == IF codes # <<>> THEN codes[1] ELSE prev

\* main: last_code_context = chunk_codes[-1], only when chunk_codes is non-empty
NextLastCode(prev, codes) == IF codes # <<>> THEN codes[Len(codes)] ELSE prev

\* _construct_prompt: the character budget of the embedded document text.
MaxPromptChars == 300000

\* _construct_prompt: text[:300000], the document text as embedded in the
\* request (one token counts as one character).
InputText(text) == SubSeq(text, 1, Min(Len(text), MaxPromptChars))

\* _construct_prompt: prev_context_str is json.dumps(previous_code_context)
\* when previous_code_context is truthy, and empty otherwise (the indentation
\* of the dump is left out).
PrevContextStr(prev) == IF Truthy(prev) THEN JsonDumps(prev) ELSE <<>>

\* one line per record: f.write(json.dumps(code) + newline)
DumpLines(codes) == [k \in 1..Len(codes) |-> JsonDumps(codes[k])]

\* open(name, "w"): the file of that page range is replaced.
WriteFile(fs, s, e, content) ==
  {f \in fs : ~(f.start = s /\ f.end = e)} \cup {[start |-> s, end |-> e, content |-> content]}

\* Variant: the chunk file is not written.
WriteChunkFileSkipped(fs, s, e, codes) == fs

\* cpt_{start}_{end}_chapter.jsonl
WriteChunkFile(fs, s, e, codes) == WriteFile(fs, s, e, DumpLines(codes))

\* Variant: the raw text is not written.
WriteDebugFileSkipped(fs, s, e, text) == fs

\* cpt_{start}_{end}_raw_error.txt
WriteDebugFile(fs, s, e, text) == WriteFile(fs, s, e, text)

\* What a file holds after the text new is written at its start: open(name,
\* "w") leaves the position of the handle at 0 and the buffered text goes out
\* when the with block closes the file, so new replaces as many characters
\* of old (what the file holds by then) as new has, and the rest of old
\* stays. A string token stands for the string with its quotes, the fence
\* marker for three characters (each written # in a cut marker), any other
\* token for its own characters; a token of old that is cut leaves its last
\* characters as one token.
WriteAtStart(old, new) ==
  LET Chars(t) == IF t = FENCE THEN "###"
                  ELSE IF t \in StrTok /\ SubSeq(t, 1, 1) # "\"" THEN Quote(t) ELSE t
      RECURSIVE Size(_)
      Size(t) == IF t = <<>> THEN 0 ELSE Len(Chars(Head(t))) + Size(Tail(t))
      RECURSIVE Drop(_, _)
      Drop(t, n) ==
        IF n = 0 \/ t = <<>> THEN t
        ELSE LET h == Chars(Head(t)) IN
               IF Len(h) <= n THEN Drop(Tail(t), n - Len(h))
               ELSE <<SubSeq(h, n + 1, Len(h))>> \o Tail(t)
  IN new \o Drop(old, Size(new))

\* WriteAtStart for a file of lines, each line ended by a newline.
LinesAtStart(old, new) ==
  LET Text(ls) == IF ls = <<>> THEN <<>> ELSE JoinLines(ls) \o <<"\n">>
      pieces == SplitLines(WriteAtStart(Text(old), Text(new)))
  IN SubSeq(pieces, 1, Len(pieces) - 1)

\* ------------------------------------------- generation-service responses
O1 == <<"{", "code", ":", "a", "}">>
O2 == <<"{", "code", ":", "b", "}">>
O3 == <<"{", "code", ":", "c", "}">>
NL == <<"\n">>
V1 == JObj(<<"code">>, <<JStr("a")>>)
V2 == JObj(<<"code">>, <<JStr("b")>>)
V3 == JObj(<<"code">>, <<JStr("c")>>)

R_Empty == <<>>
R_Jsonl == O1 \o NL \o O2
R_Truncated == O1 \o NL \o O2 \o NL \o <<"{", "code", ":">>
R_OneObject == O3
R_EmptyObject == <<"{", "}">>
R_PrettyObject == <<"{">> \o NL \o <<" ", "code", ":", " ", "a">> \o NL \o <<"}">>
R_ArrayOneLine == <<"[">> \o O1 \o <<",">> \o O2 \o <<",">> \o O3 \o <<"]">>
R_ArrayPerLine == <<"[">> \o NL \o O1 \o <<",">> \o NL \o O2 \o <<",">> \o NL \o O3 \o NL \o <<"]">>
R_ArrayPretty ==
  <<"[">> \o NL \o <<" ", "{">> \o NL \o <<" ", "code", ":", " ", "a">> \o NL \o <<" ", "}", ",">> \o NL
  \o <<" ", "{">> \o NL \o <<" ", "code", ":", " ", "b">> \o NL \o <<" ", "}", ",">> \o NL
  \o <<" ", "{">> \o NL \o <<" ", "code", ":", " ", "c">> \o NL \o <<" ", "}">> \o NL \o <<"]">>
R_EmptyArray == <<"[", "]">>
R_EmptyArrayLines == <<"[">> \o NL \o <<"]">>
R_Number == <<"5">>
R_Null == <<"null">>
R_ObjectThenNumber == O1 \o NL \o <<"5">>
R_NumberThenObject == <<"5">> \o NL \o O2
R_Fenced == <<FENCE, "json">> \o NL \o O1 \o NL \o O3 \o NL \o <<FENCE>>
R_Prose == <<"sorry">>

Responses ==
  { R_Empty, R_Jsonl, R_Truncated, R_OneObject, R_EmptyObject, R_PrettyObject,
    R_ArrayOneLine, R_ArrayPerLine, R_ArrayPretty, R_EmptyArray, R_EmptyArrayLines,
    R_Number, R_Null, R_ObjectThenNumber, R_NumberThenObject, R_Fenced, R_Prose }

\* ------------------------------------------------------------------- state
VARIABLES
  pc,                  \* position of main: "start", "loop", "parse", "done", "crashed";
                       \* with two runs also "write_chunk", "write_debug" and
                       \* "write_combined": inside the with block of that file
  args,                \* parsed command line
  doc,                 \* the document (archive) the navigator was opened on
  nav_pc,              \* navigator: "new" before __init__ has run, then "ready"
  page_map,            \* extractor.navigator.page_map
  gt,                  \* the last get_content_by_page_range call and its result
  cb,                  \* the last get_chapter_boundaries result
  hc,                  \* the last get_hierarchy_context call and its result
  cache,               \* the page-map cache file next to the archive
  scanned,             \* content files read by the last _build_page_map
  peer,                \* a second run of main going on at the same time
  chunks,              \* planned (start, end) pairs
  idx,                 \* position of the chunk loop in chunks (1-based)
  all_codes,           \* running output
  last_code_context,   \* last record emitted (None at the start)
  json_response_text,  \* what extract_pages returned for the current chunk
  calls,               \* generation requests made so far, one per chunk started
  chunk_files,         \* cpt_{s}_{e}_chapter.jsonl files
  debug_files,         \* cpt_{s}_{e}_raw_error.txt files
  combined_file,       \* << >> while unwritten, else << lines >>
  hist                 \* per processed chunk: what the parse step computed

\* State that the chunk loop never writes.
nav_vars == <<doc, nav_pc, gt, cb, hc, cache, scanned, peer>>

\* gt before any call.
NoCall == [called |-> FALSE, start |-> 0, end |-> 0, text |-> <<>>, reads |-> <<>>]

\* cb before any call.
NoBoundaries == [called |-> FALSE, list |-> <<>>]

\* hc before any call.
NoResolve == [called |-> FALSE, page |-> 0, ctx |-> NoContext, reads |-> <<>>, raised |-> FALSE]

\* No second run.
NoPeer ==
  [pc |-> "absent", chunks |-> <<>>, idx |-> 1, all_codes |-> <<>>,
   last_code_context |-> JNull, json_response_text |-> <<>>, hist |-> <<>>]

vars == <<pc, args, doc, nav_pc, page_map, gt, cb, hc, cache, scanned, peer, chunks, idx, all_codes, last_code_context,
          json_response_text, calls, chunk_files, debug_files, combined_file, hist>>

ArgSets ==
  [start : 1..MaxPage, end : 1..MaxPage, chunk_size : 1..MaxChunkSize,
   by_chapter : BOOLEAN, skip_combined_output : BOOLEAN]

Init ==
  /\ pc = "start"
  /\ args \in ArgSets
  /\ doc \in DriverDocs
  /\ nav_pc = "ready"
  /\ page_map = BuildWithCache(doc, NoCacheFile, TRUE).pm
  /\ cache = BuildWithCache(doc, NoCacheFile, TRUE).cache
  /\ scanned = BuildWithCache(doc, NoCacheFile, TRUE).scanned
  /\ gt = NoCall
  /\ cb = NoBoundaries
  /\ hc = NoResolve
  /\ peer = NoPeer
  /\ chunks = <<>>
  /\ idx = 1
  /\ all_codes = <<>>
  /\ last_code_context = JNull
  /\ json_response_text = <<>>
  /\ calls = <<>>
  /\ chunk_files = {}
  /\ debug_files = {}
  /\ combined_file = <<>>
  /\ hist = <<>>

\* main, up to the chunk loop: all_codes = [], last_code_context = None and
\* the chunk list.
Plan ==
  /\ pc = "start"
  /\ chunks' = PlanChunks(args, doc.spine, page_map)
  /\ pc' = "loop"
  /\ UNCHANGED <<nav_vars, args, page_map, idx, all_codes, last_code_context, json_response_text,
                 calls, chunk_files, debug_files, combined_file, hist>>

\* extractor.extract_pages for the current chunk: the request carries the
\* text of the page range, as get_content_by_page_range returned it, and the
\* prior-record context; the service answers with a text or the call raises.
CallReturns(text) ==
  /\ pc = "loop"
  /\ idx <= Len(chunks)
  /\ calls' = Append(calls, [start |-> chunks[idx][1], end |-> chunks[idx][2],
                             input_text |-> InputText(GetText(doc, page_map, chunks[idx][1], chunks[idx][2]).text),
                             prev_context_str |-> PrevContextStr(last_code_context),
                             raised |-> FALSE])
  /\ json_response_text' = CleanResponse(text)
  /\ pc' = "parse"
  /\ UNCHANGED <<nav_vars, args, page_map, chunks, idx, all_codes, last_code_context,
                 chunk_files, debug_files, combined_file, hist>>

CallRaises ==
  /\ pc = "loop"
  /\ idx <= Len(chunks)
  /\ calls' = Append(calls, [start |-> chunks[idx][1], end |-> chunks[idx][2],
                             input_text |-> InputText(GetText(doc, page_map, chunks[idx][1], chunks[idx][2]).text),
                             prev_context_str |-> PrevContextStr(last_code_context),
                             raised |-> TRUE])
  /\ json_response_text' = ExceptionResult
  /\ pc' = "parse"
  /\ UNCHANGED <<nav_vars, args, page_map, chunks, idx, all_codes, last_code_context,
                 chunk_files, debug_files, combined_file, hist>>

ExtractPages == CallRaises \/ \E text \in Responses : CallReturns(text)

HistEntry(codes, result) ==
  [start |-> chunks[idx][1], end |-> chunks[idx][2], text |-> json_response_text,
   jsonl |-> JsonlParse(json_response_text), codes |-> codes, result |-> result]

\* Variant: the raw text is saved for a chunk with records too.
ParseOkWithDebug ==
  LET codes == ChunkCodes(json_response_text) IN
    /\ pc = "parse"
    /\ codes # <<>>
    /\ IsDict(NextLastCode(last_code_context, codes))
    /\ all_codes' = ExtendCodes(all_codes, codes)
    /\ last_code_context' = NextLastCode(last_code_context, codes)
    /\ chunk_files' = WriteChunkFile(chunk_files, chunks[idx][1], chunks[idx][2], codes)
    /\ debug_files' = WriteDebugFile(debug_files, chunks[idx][1], chunks[idx][2], json_response_text)
    /\ hist' = Append(hist, [start |-> chunks[idx][1], end |-> chunks[idx][2],
                             text |-> json_response_text, jsonl |-> JsonlParse(json_response_text),
                             codes |-> codes, result |-> "PARSED"])
    /\ idx' = idx + 1
    /\ pc' = "loop"
    /\ UNCHANGED <<nav_vars, args, page_map, chunks, json_response_text, calls, combined_file>>

\* main, the body of the chunk loop after extract_pages: records were found,
\* the last one is a dict, the chunk file is written.
ParseOk ==
  LET codes == ChunkCodes(json_response_text) IN
    /\ pc = "parse"
    /\ codes # <<>>
    /\ IsDict(NextLastCode(last_code_context, codes))
    /\ all_codes' = ExtendCodes(all_codes, codes)
    /\ last_code_context' = NextLastCode(last_code_context, codes)
    /\ chunk_files' = WriteChunkFile(chunk_files, chunks[idx][1], chunks[idx][2], codes)
    /\ hist' = Append(hist, HistEntry(codes, "PARSED"))
    /\ idx' = idx + 1
    /\ pc' = "loop"
    /\ UNCHANGED <<nav_vars, args, page_map, chunks, json_response_text, calls, debug_files, combined_file>>

\* main: records were found but the last one is no dict: last_code_context.get
\* raises AttributeError, which except json.JSONDecodeError does not catch;
\* the process ends after all_codes and last_code_context were assigned and
\* before any file of the chunk is written.
ParseCrash ==
  LET codes == ChunkCodes(json_response_text) IN
    /\ pc = "parse"
    /\ codes # <<>>
    /\ ~IsDict(NextLastCode(last_code_context, codes))
    /\ all_codes' = ExtendCodes(all_codes, codes)
    /\ last_code_context' = NextLastCode(last_code_context, codes)
    /\ hist' = Append(hist, HistEntry(codes, "CRASHED"))
    /\ pc' = "crashed"
    /\ UNCHANGED <<nav_vars, args, page_map, chunks, idx, json_response_text, calls, chunk_files,
                   debug_files, combined_file>>

\* main: no record after both attempts: JSONDecodeError is raised and caught,
\* the raw text goes to the debug file, the loop goes on.
ParseFailed ==
  LET codes == ChunkCodes(json_response_text) IN
    /\ pc = "parse"
    /\ codes = <<>>
    /\ debug_files' = WriteDebugFile(debug_files, chunks[idx][1], chunks[idx][2], json_response_text)
    /\ last_code_context' = NextLastCode(last_code_context, codes)
    /\ hist' = Append(hist, HistEntry(codes, "PARSE_FAILED"))
    /\ idx' = idx + 1
    /\ pc' = "loop"
    /\ UNCHANGED <<nav_vars, args, page_map, chunks, all_codes, json_response_text, calls, chunk_files,
                   combined_file>>

\* Variant: no combined file is written when there are no records.
CombinedFileUnlessEmpty(skip, all) == IF skip \/ all = <<>> THEN <<>> ELSE <<DumpLines(all)>>

\* main, after the loop: the combined file, unless --skip-combined-output.
CombinedFile(skip, all) == IF skip THEN <<>> ELSE <<DumpLines(all)>>

Finish ==
  /\ pc = "loop"
  /\ idx > Len(chunks)
  /\ combined_file' = CombinedFile(args.skip_combined_output, all_codes)
  /\ pc' = "done"
  /\ UNCHANGED <<nav_vars, args, page_map, chunks, idx, all_codes, last_code_context,
                 json_response_text, calls, chunk_files, debug_files, hist>>

Next == Plan \/ ExtractPages \/ ParseOk \/ ParseCrash \/ ParseFailed \/ Finish

Spec == Init /\ [][Next]_vars

\* ------------------------------------------------------- navigator alone
\* The navigator is constructed on a document and then queried; the chunk
\* loop does not run.
ArgsDefault ==
  [start |-> 1, end |-> 1, chunk_size |-> 1, by_chapter |-> FALSE,
   skip_combined_output |-> FALSE]

\* The driver state while only the navigator is exercised.
DriverIdle ==
  /\ pc = "start"
  /\ args = ArgsDefault
  /\ chunks = <<>>
  /\ idx = 1
  /\ all_codes = <<>>
  /\ last_code_context = JNull
  /\ json_response_text = <<>>
  /\ calls = <<>>
  /\ chunk_files = {}
  /\ debug_files = {}
  /\ combined_file = <<>>
  /\ hist = <<>>

InitNav ==
  /\ doc \in NavDocs
  /\ nav_pc = "new"
  /\ page_map = NoPages
  /\ cache = NoCacheFile
  /\ scanned = <<>>
  /\ gt = NoCall
  /\ cb = NoBoundaries
  /\ hc = NoResolve
  /\ peer = NoPeer
  /\ DriverIdle

driver_vars == <<pc, args, chunks, idx, all_codes, last_code_context, json_response_text,
                 calls, chunk_files, debug_files, combined_file, hist, peer>>

\* EPUBNavigator.__init__: self.page_map = self._build_page_map();
\* can_write tells whether the cache file can be written.
Construct(can_write) ==
  /\ nav_pc = "new"
  /\ page_map' = BuildWithCache(doc, cache, can_write).pm
  /\ cache' = BuildWithCache(doc, cache, can_write).cache
  /\ scanned' = BuildWithCache(doc, cache, can_write).scanned
  /\ nav_pc' = "ready"
  /\ UNCHANGED <<driver_vars, doc, gt, cb, hc>>

\* navigator.get_content_by_page_range(start_page, end_page)
GetTextCall(start_page, end_page) ==
  /\ nav_pc = "ready"
  /\ gt' = [called |-> TRUE, start |-> start_page, end |-> end_page,
            text |-> GetText(doc, page_map, start_page, end_page).text,
            reads |-> GetText(doc, page_map, start_page, end_page).reads]
  /\ UNCHANGED <<driver_vars, doc, nav_pc, page_map, cb, hc, cache, scanned>>

\* navigator.get_chapter_boundaries()
BoundariesCall ==
  /\ nav_pc = "ready"
  /\ cb' = [called |-> TRUE, list |-> get_chapter_boundaries(doc.spine, page_map)]
  /\ UNCHANGED <<driver_vars, doc, nav_pc, page_map, gt, hc, cache, scanned>>

\* navigator.get_hierarchy_context(page_number)
ResolveCall(page_number) ==
  /\ nav_pc = "ready"
  /\ hc' = [called |-> TRUE, page |-> page_number,
            ctx |-> Resolve(doc, page_map, page_number).ctx,
            reads |-> Resolve(doc, page_map, page_number).reads,
            raised |-> Resolve(doc, page_map, page_number).raised]
  /\ UNCHANGED <<driver_vars, doc, nav_pc, page_map, gt, cb, cache, scanned>>

NextNav ==
  \/ \E w \in BOOLEAN : Construct(w)
  \/ \E s \in 1..(MaxPage + 1) : \E e \in 1..(MaxPage + 1) : GetTextCall(s, e)
  \/ BoundariesCall
  \/ \E p \in 1..(MaxPage + 1) : ResolveCall(p)

SpecNav == InitNav /\ [][NextNav]_vars

\* ------------------------------------------------------ the planner alone
\* main on any of the documents, up to the chunk list.
InitPlan ==
  /\ pc = "start"
  /\ args \in ArgSets
  /\ doc \in NavDocs
  /\ nav_pc = "ready"
  /\ page_map = BuildWithCache(doc, NoCacheFile, TRUE).pm
  /\ cache = BuildWithCache(doc, NoCacheFile, TRUE).cache
  /\ scanned = BuildWithCache(doc, NoCacheFile, TRUE).scanned
  /\ gt = NoCall
  /\ cb = NoBoundaries
  /\ hc = NoResolve
  /\ peer = NoPeer
  /\ chunks = <<>>
  /\ idx = 1
  /\ all_codes = <<>>
  /\ last_code_context = JNull
  /\ json_response_text = <<>>
  /\ calls = <<>>
  /\ chunk_files = {}
  /\ debug_files = {}
  /\ combined_file = <<>>
  /\ hist = <<>>

NextPlan == Plan

SpecPlan == InitPlan /\ [][NextPlan]_vars

\* ------------------------------------------------ two runs at the same time
\* main is started twice on the same archive and output directory. Each
\* process has its own all_codes and last_code_context (locals of main);
\* the files they write are shared. A file is written in two steps, between
\* which the other process may run: open(name, "w") empties the file at
\* once, and the lines, held in the buffer of the handle until then, reach
\* the file when the with block is left. The second run is kept in peer.
ArgsTwoChunks ==
  [start |-> 1, end |-> 2, chunk_size |-> 1, by_chapter |-> FALSE,
   skip_combined_output |-> FALSE]

\* Responses the second run receives.
PeerResponses == {R_Jsonl, R_OneObject, R_Truncated, R_Empty, R_Prose, R_Number}

\* Variant: both runs keep the value in one shared place.
AcrossRunsShared(own, assigned) == assigned

\* What a local of this run holds after the other run assigned its local of
\* the same name: a local of main belongs to one process.
AcrossRuns(own, assigned) == own

InitRuns ==
  /\ pc = "start"
  /\ args = ArgsTwoChunks
  /\ doc = D_Scenario
  /\ nav_pc = "ready"
  /\ page_map = BuildWithCache(doc, NoCacheFile, TRUE).pm
  /\ cache = BuildWithCache(doc, NoCacheFile, TRUE).cache
  /\ scanned = BuildWithCache(doc, NoCacheFile, TRUE).scanned
  /\ gt = NoCall
  /\ cb = NoBoundaries
  /\ hc = NoResolve
  /\ peer = [NoPeer EXCEPT !.pc = "start"]
  /\ chunks = <<>>
  /\ idx = 1
  /\ all_codes = <<>>
  /\ last_code_context = JNull
  /\ json_response_text = <<>>
  /\ calls = <<>>
  /\ chunk_files = {}
  /\ debug_files = {}
  /\ combined_file = <<>>
  /\ hist = <<>>

\* main, the body of the chunk loop after extract_pages up to the open of
\* the file of the chunk: the chunk file when records were found (the last
\* one a dict), the debug file when none was. The file is empty from here on
\* until the with block is left.
ParseOpen ==
  LET codes == ChunkCodes(json_response_text) IN
    /\ pc = "parse"
    /\ codes = <<>> \/ IsDict(NextLastCode(last_code_context, codes))
    /\ all_codes' = IF codes # <<>> THEN ExtendCodes(all_codes, codes) ELSE all_codes
    /\ last_code_context' = NextLastCode(last_code_context, codes)
    /\ chunk_files' = IF codes # <<>>
                      THEN WriteFile(chunk_files, chunks[idx][1], chunks[idx][2], <<>>)
                      ELSE chunk_files
    /\ debug_files' = IF codes = <<>>
                      THEN WriteFile(debug_files, chunks[idx][1], chunks[idx][2], <<>>)
                      ELSE debug_files
    /\ hist' = Append(hist, HistEntry(codes, IF codes # <<>> THEN "PARSED" ELSE "PARSE_FAILED"))
    /\ pc' = IF codes # <<>> THEN "write_chunk" ELSE "write_debug"
    /\ UNCHANGED <<nav_vars, args, page_map, chunks, idx, json_response_text, calls, combined_file>>

\* main, after the loop: open(final_output, "w") unless
\* --skip-combined-output.
FinishOpen ==
  /\ pc = "loop"
  /\ idx > Len(chunks)
  /\ combined_file' = IF args.skip_combined_output THEN combined_file ELSE << <<>> >>
  /\ pc' = IF args.skip_combined_output THEN "done" ELSE "write_combined"
  /\ UNCHANGED <<nav_vars, args, page_map, chunks, idx, all_codes, last_code_context,
                 json_response_text, calls, chunk_files, debug_files, hist>>

\* main, the end of a with block: what was written to the handle goes to
\* the start of the file as it is by then. After a chunk or debug file the
\* loop goes on with the next chunk; after the combined file main is over.
RunClose ==
  LET s == chunks[idx][1]
      e == chunks[idx][2]
      held(fs) == (CHOOSE f \in fs : f.start = s /\ f.end = e).content
  IN
    /\ pc \in {"write_chunk", "write_debug", "write_combined"}
    /\ chunk_files' = IF pc = "write_chunk"
                      THEN WriteFile(chunk_files, s, e,
                                     LinesAtStart(held(chunk_files),
                                                  DumpLines(ChunkCodes(json_response_text))))
                      ELSE chunk_files
    /\ debug_files' = IF pc = "write_debug"
                      THEN WriteFile(debug_files, s, e,
                                     WriteAtStart(held(debug_files), json_response_text))
                      ELSE debug_files
    /\ combined_file' = IF pc = "write_combined"
                        THEN <<LinesAtStart(combined_file[1], DumpLines(all_codes))>>
                        ELSE combined_file
    /\ idx' = IF pc = "write_combined" THEN idx ELSE idx + 1
    /\ pc' = IF pc = "write_combined" THEN "done" ELSE "loop"
    /\ UNCHANGED <<nav_vars, args, page_map, chunks, all_codes, last_code_context,
                   json_response_text, calls, hist>>

\* Second run: all_codes = [], last_code_context = None, the chunk list.
PeerPlan ==
  /\ peer.pc = "start"
  /\ peer' = [peer EXCEPT !.pc = "loop", !.all_codes = <<>>, !.last_code_context = JNull,
                          !.chunks = PlanChunks(args, doc.spine, page_map)]
  /\ UNCHANGED <<pc, args, doc, nav_pc, page_map, gt, cb, hc, cache, scanned, chunks, idx,
                 all_codes, last_code_context, json_response_text, calls, chunk_files,
                 debug_files, combined_file, hist>>

\* Second run: one iteration of the chunk loop on the text extract_pages
\* returned (ExceptionResult when the call raised), up to the open of the
\* file of the chunk; a last record that is no dict ends the run before it.
PeerChunk(text) ==
  LET codes == ChunkCodes(text)
      s == peer.chunks[peer.idx][1]
      e == peer.chunks[peer.idx][2]
      last == NextLastCode(peer.last_code_context, codes)
      all == IF codes # <<>> THEN ExtendCodes(peer.all_codes, codes) ELSE peer.all_codes
  IN
    /\ peer.pc = "loop"
    /\ peer.idx <= Len(peer.chunks)
    /\ peer' = [peer EXCEPT !.all_codes = all, !.last_code_context = last,
                            !.json_response_text = text,
                            !.hist = Append(peer.hist, [codes |-> codes]),
                            !.pc = IF codes = <<>> THEN "write_debug"
                                   ELSE IF IsDict(last) THEN "write_chunk" ELSE "crashed"]
    /\ all_codes' = AcrossRuns(all_codes, all)
    /\ last_code_context' = AcrossRuns(last_code_context, last)
    /\ chunk_files' = IF codes # <<>> /\ IsDict(last)
                      THEN WriteFile(chunk_files, s, e, <<>>) ELSE chunk_files
    /\ debug_files' = IF codes = <<>>
                      THEN WriteFile(debug_files, s, e, <<>>) ELSE debug_files
    /\ UNCHANGED <<pc, args, doc, nav_pc, page_map, gt, cb, hc, cache, scanned, chunks, idx,
                   json_response_text, calls, combined_file, hist>>

\* Second run: the loop is over, open(final_output, "w").
PeerFinish ==
  /\ peer.pc = "loop"
  /\ peer.idx > Len(peer.chunks)
  /\ peer' = [peer EXCEPT !.pc = IF args.skip_combined_output THEN "done"
                                 ELSE "write_combined"]
  /\ combined_file' = IF args.skip_combined_output THEN combined_file ELSE << <<>> >>
  /\ UNCHANGED <<pc, args, doc, nav_pc, page_map, gt, cb, hc, cache, scanned, chunks, idx,
                 all_codes, last_code_context, json_response_text, calls, chunk_files,
                 debug_files, hist>>

\* Second run: the end of a with block.
PeerClose ==
  LET s == peer.chunks[peer.idx][1]
      e == peer.chunks[peer.idx][2]
      held(fs) == (CHOOSE f \in fs : f.start = s /\ f.end = e).content
  IN
    /\ peer.pc \in {"write_chunk", "write_debug", "write_combined"}
    /\ chunk_files' = IF peer.pc = "write_chunk"
                      THEN WriteFile(chunk_files, s, e,
                                     LinesAtStart(held(chunk_files),
                                                  DumpLines(ChunkCodes(peer.json_response_text))))
                      ELSE chunk_files
    /\ debug_files' = IF peer.pc = "write_debug"
                      THEN WriteFile(debug_files, s, e,
                                     WriteAtStart(held(debug_files), peer.json_response_text))
                      ELSE debug_files
    /\ combined_file' = IF peer.pc = "write_combined"
                        THEN <<LinesAtStart(combined_file[1], DumpLines(peer.all_codes))>>
                        ELSE combined_file
    /\ peer' = [peer EXCEPT !.idx = IF peer.pc = "write_combined" THEN peer.idx
                                    ELSE peer.idx + 1,
                            !.pc = IF peer.pc = "write_combined" THEN "done" ELSE "loop"]
    /\ UNCHANGED <<pc, args, doc, nav_pc, page_map, gt, cb, hc, cache, scanned, chunks, idx,
                   all_codes, last_code_context, json_response_text, calls, hist>>

NextRuns ==
  \/ Plan
  \/ ExtractPages
  \/ ParseOpen
  \/ ParseCrash
  \/ FinishOpen
  \/ RunClose
  \/ PeerPlan
  \/ PeerChunk(ExceptionResult)
  \/ \E text \in PeerResponses : PeerChunk(CleanResponse(text))
  \/ PeerFinish
  \/ PeerClose

SpecRuns == InitRuns /\ [][NextRuns]_vars

\* --------------------------------------------- extract_pages on its own
\* Answers of the service that carry fence markers in several places: a
\* fence right after the json fence, a fence on the line after it, plain
\* fences with blanks around, two leading fences, two trailing fences, a
\* fence before the json fence, markers and nothing else, a fence inside.
FenceTexts ==
  { <<FENCE, "json", FENCE>> \o O1 \o <<FENCE>>,
    <<FENCE, "json">> \o NL \o <<FENCE>> \o NL \o O1,
    <<" ", FENCE>> \o NL \o O2 \o NL \o <<FENCE, " ">>,
    <<FENCE, FENCE>> \o O1,
    O1 \o <<FENCE, " ", FENCE>>,
    <<FENCE, " ", FENCE, "json">> \o O3,
    <<FENCE, "json">>,
    <<FENCE>>,
    <<FENCE, "json", FENCE>>,
    O1 \o NL \o <<FENCE>> \o NL \o O2 }

\* One run of two chunks whose answers are drawn from Responses and
\* FenceTexts.
NextClean ==
  \/ Plan
  \/ CallRaises
  \/ \E text \in Responses \cup FenceTexts : CallReturns(text)
  \/ ParseOk
  \/ ParseCrash
  \/ ParseFailed
  \/ Finish

InitClean ==
  /\ pc = "start"
  /\ args = ArgsTwoChunks
  /\ doc = D_Scenario
  /\ nav_pc = "ready"
  /\ page_map = BuildWithCache(doc, NoCacheFile, TRUE).pm
  /\ cache = BuildWithCache(doc, NoCacheFile, TRUE).cache
  /\ scanned = BuildWithCache(doc, NoCacheFile, TRUE).scanned
  /\ gt = NoCall
  /\ cb = NoBoundaries
  /\ hc = NoResolve
  /\ peer = NoPeer
  /\ chunks = <<>>
  /\ idx = 1
  /\ all_codes = <<>>
  /\ last_code_context = JNull
  /\ json_response_text = <<>>
  /\ calls = <<>>
  /\ chunk_files = {}
  /\ debug_files = {}
  /\ combined_file = <<>>
  /\ hist = <<>>

SpecClean == InitClean /\ [][NextClean]_vars

\* ------------------------------------------- navigator and its cache file
\* The program is run again and again on one archive: each run constructs a
\* navigator, which finds the cache file as earlier runs (or anything else)
\* left it.
\* Cache texts found at the first run: none, the cache of this document,
\* the cache of another document, a text that is not JSON, a JSON array, an
\* object whose key is not a number.
InitCaches(d) ==
  {NoCacheFile,
   CacheFile(CacheText(BuildPageMap(d), PageOrder(d))),
   CacheFile(CacheText(BuildPageMap(D_Three), PageOrder(D_Three))),
   CacheFile(<<"{", Quote("1"), ":">>),
   CacheFile(<<"[", "]">>),
   CacheFile(<<"{", "a", ":", " ", "{", "file_id", ":", " ", "fA", "}", "}">>)}

InitCache ==
  /\ doc \in NavDocs
  /\ nav_pc = "new"
  /\ page_map = NoPages
  /\ cache \in InitCaches(doc)
  /\ scanned = <<>>
  /\ gt = NoCall
  /\ cb = NoBoundaries
  /\ hc = NoResolve
  /\ peer = NoPeer
  /\ DriverIdle

\* The run ends; the navigator object is gone, the cache file stays.
EndRun ==
  /\ nav_pc = "ready"
  /\ nav_pc' = "new"
  /\ page_map' = NoPages
  /\ scanned' = <<>>
  /\ UNCHANGED <<driver_vars, doc, gt, cb, hc, cache>>

NextCache ==
  \/ \E w \in BOOLEAN : Construct(w)
  \/ EndRun

SpecCache == InitCache /\ [][NextCache]_vars

\* ------------------------------------------ the cache file across archives
\* Between two runs the archive at the same path is replaced by a copy in
\* which member f can (ok) or cannot be read; the cache file next to it stays.
ArchiveReplaced(f, ok) ==
  /\ nav_pc = "new"
  /\ \E n \in 1..Len(doc.spine) : doc.spine[n] = f
  /\ doc.files[f].readable # ok
  /\ doc' = [doc EXCEPT !.files[f].readable = ok]
  /\ UNCHANGED <<driver_vars, nav_pc, page_map, gt, cb, hc, cache, scanned>>

\* Between two runs the cache file is deleted.
RemoveCache ==
  /\ nav_pc = "new"
  /\ cache.present
  /\ cache' = NoCacheFile
  /\ UNCHANGED <<driver_vars, doc, nav_pc, page_map, gt, cb, hc, scanned>>

\* No cache file at the first run.
InitStale ==
  /\ doc \in NavDocs
  /\ nav_pc = "new"
  /\ page_map = NoPages
  /\ cache = NoCacheFile
  /\ scanned = <<>>
  /\ gt = NoCall
  /\ cb = NoBoundaries
  /\ hc = NoResolve
  /\ peer = NoPeer
  /\ DriverIdle

NextStale ==
  \/ \E w \in BOOLEAN : Construct(w)
  \/ EndRun
  \/ \E f \in FileIds : \E ok \in BOOLEAN : ArchiveReplaced(f, ok)
  \/ RemoveCache

SpecStale == InitStale /\ [][NextStale]_vars

\* The run ends; the navigator object and what its calls returned are gone,
\* the cache file stays.
EndCalls ==
  /\ nav_pc = "ready"
  /\ nav_pc' = "new"
  /\ page_map' = NoPages
  /\ scanned' = <<>>
  /\ gt' = NoCall
  /\ UNCHANGED <<driver_vars, doc, cb, hc, cache>>

\* get_content_by_page_range on an index that may come from a cache file
\* written for an earlier copy of the archive.
NextStaleNav ==
  \/ \E w \in BOOLEAN : Construct(w)
  \/ EndCalls
  \/ \E f \in FileIds : \E ok \in BOOLEAN : ArchiveReplaced(f, ok)
  \/ RemoveCache
  \/ \E s \in 1..(MaxPage + 1) : \E e \in 1..(MaxPage + 1) : GetTextCall(s, e)

SpecStaleNav == InitStale /\ [][NextStaleNav]_vars

\* ------------------------------------------------------- claim vocabulary
\* The chunk being parsed and the request that was made for it.
CurStart == chunks[idx][1]
CurEnd == chunks[idx][2]
CurCall == calls[Len(calls)]

\* Zero records under both parse strategies.
ZeroRecords(text) == JsonlParse(text) = <<>> /\ FallbackParse(text) = <<>>

\* The cleaned text is one top-level JSON array whose elements are objects.
IsArrayOfObjects(text) ==
  LET r == JsonLoads(text) IN
    r.ok /\ IsList(r.val) /\ \A n \in 1..Len(r.val.items) : IsDict(r.val.items[n])

\* Chunks before call k that produced records.
ProducersBefore(k) == {j \in 1..(k - 1) : j <= Len(hist) /\ hist[j].codes # <<>>}

RECURSIVE FlattenCodes(_, _)
FlattenCodes(h, n) == IF n > Len(h) THEN <<>> ELSE h[n].codes \o FlattenCodes(h, n + 1)

\* The lines of a text that json.loads accepts on their own, in line order.
GoodLines(text) ==
  SelectSeq(SplitLines(Strip(text)),
            LAMBDA l : Strip(l) # <<>> /\ JsonLoads(Strip(l)).ok)

\* --------------------------------------------------------------------- C1
\* C1: whatever the generation service does for each chunk, the run is never
\* halted by a chunk and ends DONE with every planned chunk processed.
C1_NoChunkHaltsRun ==
  /\ pc # "crashed"
  /\ pc = "done" => Len(hist) = Len(chunks)

\* --------------------------------------------------------------------- C2
\* C2: a chunk whose generation call raised contributes zero records, leaves
\* last_code_context and all_codes as they were, and the loop moves on to the
\* next chunk, as for a chunk that parses to zero records.
C2_CallFailureIsZeroRecords ==
  [][(pc = "parse" /\ CurCall.raised) =>
       /\ all_codes' = all_codes
       /\ last_code_context' = last_code_context
       /\ pc' = "loop"
       /\ idx' = idx + 1]_vars

\* --------------------------------------------------------------------- C3
\* C3: a chunk whose response is empty or yields zero records under both
\* parse strategies leaves last_code_context and all_codes unchanged.
C3_ZeroRecordsKeepState ==
  [][(pc = "parse" /\ ZeroRecords(json_response_text)) =>
       /\ all_codes' = all_codes
       /\ last_code_context' = last_code_context]_vars

\* A failed chunk was processed right after a chunk that produced records, and
\* the carried record is still that chunk's last one.
C3_Witness ==
  /\ pc = "loop"
  /\ Len(hist) >= 2
  /\ hist[Len(hist)].result = "PARSE_FAILED"
  /\ hist[Len(hist) - 1].result = "PARSED"
  /\ last_code_context = V2
  /\ all_codes = <<V1, V2>>

\* --------------------------------------------------------------------- C4
\* C4: the prior-record context in the request of chunk k is the last record
\* of the most recent earlier chunk that produced records, and it is omitted
\* exactly when no earlier chunk produced records.
C4_PriorContextIsLastRecord ==
  \A k \in 1..Len(calls) :
    LET prod == ProducersBefore(k) IN
      /\ (calls[k].prev_context_str = <<>>) <=> (prod = {})
      /\ prod # {} =>
           LET c == hist[MaxOf(prod)].codes IN
             JsonLoads(calls[k].prev_context_str) = POk(c[Len(c)], Len(calls[k].prev_context_str) + 1)

\* --------------------------------------------------------------------- C5
\* C5: after a chunk that yields records, last_code_context is the last record
\* of the chunk, all_codes is its old value followed by the records of the
\* chunk, and the chunk file of that page range holds exactly those records.
C5_RecordsAdvanceState ==
  [][(pc = "parse" /\ ChunkCodes(json_response_text) # <<>>) =>
       LET codes == ChunkCodes(json_response_text) IN
         /\ last_code_context' = codes[Len(codes)]
         /\ all_codes' = all_codes \o codes
         /\ [start |-> CurStart, end |-> CurEnd, content |-> DumpLines(codes)] \in chunk_files']_vars

\* --------------------------------------------------------------------- C6
\* C6: when the cleaned text is one top-level JSON array of objects, the
\* records of the chunk are the elements of the array, in order, whatever the
\* line layout of the array.
C6_ArrayYieldsItsElements ==
  [][(pc = "parse" /\ IsArrayOfObjects(json_response_text)) =>
       /\ hist'[Len(hist')].codes = JsonLoads(json_response_text).val.items
       /\ all_codes' = all_codes \o JsonLoads(json_response_text).val.items]_vars

\* --------------------------------------------------------------------- C7
\* C7: line parsing yields one record per non-blank line that parses on its
\* own, in line order, and passes over the other lines; two valid lines and a
\* truncated third give exactly the two records.
C7_JsonlOneRecordPerGoodLine ==
  \A k \in 1..Len(hist) :
    LET good == GoodLines(hist[k].text) IN
      /\ Len(hist[k].jsonl) = Len(good)
      /\ \A n \in 1..Len(good) : hist[k].jsonl[n] = JsonLoads(Strip(good[n])).val
      /\ hist[k].jsonl # <<>> => hist[k].codes = hist[k].jsonl
      /\ hist[k].text = R_Truncated => hist[k].codes = <<V1, V2>> /\ hist[k].result = "PARSED"

\* A chunk answered by two JSONL lines and a truncated third was processed.
C7_Witness ==
  \E k \in 1..Len(hist) :
    /\ hist[k].text = R_Truncated
    /\ Len(SplitLines(hist[k].text)) = 3
    /\ Len(hist[k].jsonl) = 2

\* --------------------------------------------------------------------- C8
\* C8: every record in all_codes, in last_code_context and in any chunk or
\* combined file is a JSON object.
C8_RecordsAreObjects ==
  /\ \A n \in 1..Len(all_codes) : IsDict(all_codes[n])
  /\ last_code_context = JNull \/ IsDict(last_code_context)
  /\ \A f \in chunk_files : \A n \in 1..Len(f.content) : IsDict(JsonLoads(f.content[n]).val)
  /\ \A c \in 1..Len(combined_file) :
       \A n \in 1..Len(combined_file[c]) : IsDict(JsonLoads(combined_file[c][n]).val)

\* --------------------------------------------------------------------- C9
\* C9: a chunk with zero records after both parse attempts writes the cleaned
\* text to the debug file of its page range, writes no chunk file, and the
\* loop goes on without an exception.
C9_ZeroRecordsWriteDebug ==
  [][(pc = "parse" /\ ZeroRecords(json_response_text)) =>
       /\ [start |-> CurStart, end |-> CurEnd, content |-> json_response_text] \in debug_files'
       /\ \A f \in debug_files' : (f.start = CurStart /\ f.end = CurEnd) => f.content = json_response_text
       /\ chunk_files' = chunk_files
       /\ \A f \in chunk_files' : ~(f.start = CurStart /\ f.end = CurEnd)
       /\ pc' = "loop"
       /\ idx' = idx + 1]_vars

\* The second chunk answered with prose: its debug file holds that text and
\* the loop is at the third chunk.
C9_Witness ==
  /\ pc = "loop"
  /\ idx = 3
  /\ Len(chunks) >= 2
  /\ [start |-> chunks[2][1], end |-> chunks[2][2], content |-> R_Prose] \in debug_files

\* -------------------------------------------------------------------- C10
\* C10: at DONE the combined file, unless suppressed, holds the records of all
\* chunks that produced records, in chunk order and response order; failed
\* chunks contribute nothing.
C10_CombinedIsConcatenation ==
  pc = "done" =>
    /\ Len(hist) = Len(chunks)
    /\ \A k \in 1..Len(hist) : hist[k].result = "PARSE_FAILED" => hist[k].codes = <<>>
    /\ IF args.skip_combined_output THEN combined_file = <<>>
       ELSE combined_file = <<DumpLines(FlattenCodes(hist, 1))>>

\* A finished run of three chunks, the middle one failed, the others with
\* records, and the combined file written.
C10_Witness ==
  /\ pc = "done"
  /\ Len(hist) = 3
  /\ hist[1].result = "PARSED"
  /\ hist[2].result = "PARSE_FAILED"
  /\ hist[3].codes = <<V3>>
  /\ combined_file # <<>>
  /\ Len(combined_file[1]) = Len(hist[1].codes) + 1

\* ------------------------------------------------- navigator vocabulary
\* Position of a file in a spine.
SpineIndex(sp, f) == CHOOSE n \in 1..Len(sp) : sp[n] = f

\* The spine files at positions i..j, in order (none when j < i).
SpineRange(sp, i, j) == [n \in 1..(j - i + 1) |-> sp[i + n - 1]]

\* The plain texts of a list of files.
TextsOf(d, fs) == [n \in 1..Len(fs) |-> d.files[fs[n]].text]

\* The files of a list whose read succeeds.
ReadableOf(d, fs) == SelectSeq(fs, LAMBDA f : d.files[f].readable)

\* t occurs in text as a contiguous piece.
Contains(text, t) ==
  \E k \in 0..(Len(text) - Len(t)) : SubSeq(text, k + 1, k + Len(t)) = t

\* The first readable spine file that carries a marker of page p.
FirstFileWith(d, p) ==
  d.spine[MinOf({n \in 1..Len(d.spine) :
                   /\ d.files[d.spine[n]].readable
                   /\ \E k \in 1..Len(d.files[d.spine[n]].markers) :
                        d.files[d.spine[n]].markers[k] = p})]

\* -------------------------------------------------------------------- C11
\* C11: chunks are processed one at a time in planner order, the request of
\* a chunk is built only after the parse step of the chunk before it has
\* completed, and that order is increasing page order.
C11_SequentialIncreasingPages ==
  /\ Len(calls) = Len(hist) + (IF pc = "parse" THEN 1 ELSE 0)
  /\ \A k \in 1..Len(calls) : calls[k].start = chunks[k][1] /\ calls[k].end = chunks[k][2]
  /\ \A k \in 1..Len(hist) : hist[k].start = chunks[k][1] /\ hist[k].end = chunks[k][2]
  /\ \A k \in 1..(Len(calls) - 1) : calls[k].end < calls[k + 1].start

\* -------------------------------------------------------------------- C12
\* C12: whenever the driver starts a chunk, every earlier chunk that produced
\* records has its chunk file written, holding those records.
C12_EarlierArtifactsWritten ==
  [][(pc = "loop" /\ pc' = "parse") =>
       \A j \in 1..(idx - 1) :
         hist[j].codes # <<>> =>
           [start |-> chunks[j][1], end |-> chunks[j][2], content |-> DumpLines(hist[j].codes)]
             \in chunk_files]_vars

\* The third chunk has been started after two chunks that produced records.
C12_Witness ==
  /\ pc = "parse"
  /\ idx = 3
  /\ hist[1].codes # <<>>
  /\ hist[2].codes # <<>>
  /\ Cardinality(chunk_files) = 2

\* -------------------------------------------------------------------- C13
\* C13: a page number whose marker occurs more than once is mapped to the
\* first file, in spine order, that carries the marker.
C13_FirstSeenWins ==
  nav_pc = "ready" => \A p \in DOMAIN page_map : page_map[p] = FirstFileWith(doc, p)

\* -------------------------------------------------------------------- C14
\* C14 as stated: with index {1: fA, 2: fA, 3: fB} over spine [fA, fB],
\* get_text(1, 2) reads and returns the content of fA only.
C14_Original ==
  (doc = D_Scenario /\ gt.called /\ gt.start = 1 /\ gt.end = 2) =>
    gt.reads = <<"fA">> /\ gt.text = <<"tA">>

\* C14 amended: with that index, get_text(1, 2) reads fA and fB and returns
\* the content of fA followed by the content of fB, the file of page 3.
C14_ScenarioReadsBothFiles ==
  (doc = D_Scenario /\ gt.called /\ gt.start = 1 /\ gt.end = 2) =>
    gt.reads = <<"fA", "fB">> /\ gt.text = <<"tA", "\n", "tB">>

\* get_text(1, 2) was called on the scenario document.
C14_Witness ==
  /\ doc = D_Scenario
  /\ page_map = (1 :> "fA") @@ (2 :> "fA") @@ (3 :> "fB")
  /\ gt.called
  /\ gt.start = 1
  /\ gt.end = 2

\* -------------------------------------------------------------------- C15
\* C15: when start_page and end_page + 1 are both indexed, get_text returns
\* the whole text of every spine file from the file of start_page through
\* the file of end_page + 1, in spine order, and of no other file.
C15_StartThroughStopFile ==
  (gt.called /\ gt.start <= gt.end
     /\ gt.start \in DOMAIN page_map /\ (gt.end + 1) \in DOMAIN page_map) =>
    LET fs == SpineRange(doc.spine, SpineIndex(doc.spine, page_map[gt.start]),
                         SpineIndex(doc.spine, page_map[gt.end + 1]))
    IN gt.reads = fs /\ gt.text = JoinLines(TextsOf(doc, fs))

\* -------------------------------------------------------------------- C16
\* C16 as stated: when end_page + 1 has no index entry, get_text returns the
\* content of every spine file from the file of start_page through the last
\* file of the spine.
C16_Original ==
  (gt.called /\ gt.start \in DOMAIN page_map /\ ~((gt.end + 1) \in DOMAIN page_map)) =>
    gt.text = JoinLines(TextsOf(doc, SpineRange(doc.spine,
                SpineIndex(doc.spine, page_map[gt.start]), Len(doc.spine))))

\* C16 amended: on a page index built by scanning the document, when
\* end_page + 1 has no index entry, get_text attempts every spine file from
\* the file of start_page through the last file of the spine and returns the
\* content of those that can be read, in spine order; only a file whose read
\* fails is left out.
C16_ThroughEndOfSpine ==
  (gt.called /\ page_map = BuildPageMap(doc)
     /\ gt.start \in DOMAIN page_map /\ ~((gt.end + 1) \in DOMAIN page_map)) =>
    LET fs == SpineRange(doc.spine, SpineIndex(doc.spine, page_map[gt.start]), Len(doc.spine))
    IN gt.reads = fs /\ gt.text = JoinLines(TextsOf(doc, ReadableOf(doc, fs)))

\* get_text(1, 1) on the document without page 2: both files are returned.
C16_Witness ==
  /\ doc = D_Gap
  /\ gt.called
  /\ gt.start = 1
  /\ gt.end = 1
  /\ ~(2 \in DOMAIN page_map)
  /\ gt.text = <<"tA", "\n", "tB">>

\* -------------------------------------------------------------------- C17
\* C17 as stated: for every indexed page p, get_text(p, p) is a non-empty
\* string that contains the full text of the file of p.
C17_Original ==
  (gt.called /\ gt.start = gt.end /\ gt.start \in DOMAIN page_map) =>
    gt.text # <<>> /\ Contains(gt.text, doc.files[page_map[gt.start]].text)

\* C17 amended: for every indexed page p, get_text(p, p) contains the full
\* text of the file of p, and is non-empty whenever that file has any text.
C17_ContainsFileOfPage ==
  (gt.called /\ gt.start = gt.end /\ gt.start \in DOMAIN page_map) =>
    /\ Contains(gt.text, doc.files[page_map[gt.start]].text)
    /\ doc.files[page_map[gt.start]].text # <<>> => gt.text # <<>>

\* get_text(1, 1) returned the file of page 1 and the file after it.
C17_Witness ==
  /\ doc = D_Three
  /\ gt.called
  /\ gt.start = 1
  /\ gt.end = 1
  /\ gt.text = <<"tA", "\n", "tB">>

\* -------------------------------------------------------------------- C18
\* C18: get_text with a start page that is not indexed returns the error
\* string naming the page and reads no content file.
C18_MissingStartIsErrorString ==
  (gt.called /\ ~(gt.start \in DOMAIN page_map)) =>
    /\ gt.text = <<"Error: Start page ", ToString(gt.start), " not found.">>
    /\ gt.reads = <<>>

\* get_text(2, 3) on the document without page 2.
C18_Witness ==
  /\ doc = D_Gap
  /\ nav_pc = "ready"
  /\ gt.called
  /\ gt.start = 2
  /\ gt.end = 3
  /\ gt.reads = <<>>

\* -------------------------------------------------------------------- C19
\* C19: for a chunk whose start page is not indexed, the error string of the
\* range extractor is not embedded as document text in a generation request.
C19_ErrorStringNotEmbedded ==
  \A k \in 1..Len(calls) :
    ~(calls[k].start \in DOMAIN page_map) =>
      calls[k].input_text # <<"Error: Start page ", ToString(calls[k].start), " not found.">>

\* -------------------------------------------------------------------- C20
\* C20 as stated: every indexed page lies inside the page range of exactly
\* one chapter boundary.
C20_Original ==
  cb.called =>
    \A p \in DOMAIN page_map :
      Cardinality({n \in 1..Len(cb.list) :
                     cb.list[n].start_page <= p /\ p <= cb.list[n].end_page}) = 1

\* C20 amended: every indexed page has exactly one boundary of its owning
\* file and lies inside the page range of that boundary, so no indexed page
\* is orphaned (ranges of different files may overlap).
C20_PageInsideOwnBoundary ==
  cb.called =>
    \A p \in DOMAIN page_map :
      /\ Cardinality({n \in 1..Len(cb.list) : cb.list[n].file_id = page_map[p]}) = 1
      /\ \A n \in 1..Len(cb.list) :
           cb.list[n].file_id = page_map[p] =>
             cb.list[n].start_page <= p /\ p <= cb.list[n].end_page

\* Boundaries of the scenario document: fA owns pages 1..2, fB page 3.
C20_Witness ==
  /\ doc = D_Scenario
  /\ cb.called
  /\ Len(cb.list) = 2
  /\ cb.list[1] = [file_id |-> "fA", start_page |-> 1, end_page |-> 2]

\* -------------------------------------------------------------------- C21
\* C21: in either chunking mode the planned chunk list is strictly ordered
\* by page number: each chunk starts after the end of the chunk before it.
C21_ChunksStrictlyOrdered ==
  pc # "start" => \A k \in 1..(Len(chunks) - 1) : chunks[k + 1][1] > chunks[k][2]

\* -------------------------------------------------------------------- C22
\* C22: in fixed-size mode with start <= end the chunks are consecutive
\* ranges covering [start, end] exactly; every chunk but the last spans
\* chunk_size pages and the last one ends at end.
C22_FixedChunksCoverRange ==
  (pc # "start" /\ ~args.by_chapter /\ args.start <= args.end) =>
    /\ Len(chunks) >= 1
    /\ chunks[1][1] = args.start
    /\ chunks[Len(chunks)][2] = args.end
    /\ chunks[Len(chunks)][1] <= args.end
    /\ chunks[Len(chunks)][2] - chunks[Len(chunks)][1] + 1 <= args.chunk_size
    /\ \A k \in 1..(Len(chunks) - 1) :
         /\ chunks[k][2] - chunks[k][1] + 1 = args.chunk_size
         /\ chunks[k + 1][1] = chunks[k][2] + 1

\* Pages 1..3 in chunks of two: a full chunk and a clipped last one.
C22_Witness ==
  /\ pc = "loop"
  /\ ~args.by_chapter
  /\ args.start = 1
  /\ args.end = 3
  /\ args.chunk_size = 2
  /\ chunks = <<<<1, 2>>, <<3, 3>>>>

\* -------------------------------------------------------------------- C23
\* C23: in chapter-aligned mode the chunk list is exactly the boundaries b
\* with max(b.start_page, start) <= min(b.end_page, end), in spine order,
\* each with its own (start_page, end_page), not clipped to the request.
C23_ChapterChunksAreOverlappingBoundaries ==
  (pc # "start" /\ args.by_chapter) =>
    LET sel == SelectSeq(get_chapter_boundaries(doc.spine, page_map),
                         LAMBDA b : Max(b.start_page, args.start) <= Min(b.end_page, args.end))
    IN /\ Len(chunks) = Len(sel)
       /\ \A n \in 1..Len(sel) : chunks[n] = <<sel[n].start_page, sel[n].end_page>>

\* Request 2..3 on the scenario document: the boundary of fA is taken whole.
C23_Witness ==
  /\ pc = "loop"
  /\ args.by_chapter
  /\ doc = D_Scenario
  /\ args.start = 2
  /\ args.end = 3
  /\ chunks = <<<<1, 2>>, <<3, 3>>>>

\* -------------------------------------------------------------------- C24
\* C24: boundaries() has exactly one entry per spine file that owns an
\* indexed page, in spine order, with start_page and end_page the least and
\* the greatest page the file owns; other spine files have no entry.
C24_OneBoundaryPerOwningFile ==
  cb.called =>
    LET owners == SelectSeq(doc.spine, LAMBDA f : \E p \in DOMAIN page_map : page_map[p] = f)
    IN /\ Len(cb.list) = Len(owners)
       /\ \A n \in 1..Len(owners) :
            LET owned == {p \in DOMAIN page_map : page_map[p] = owners[n]} IN
              /\ cb.list[n].file_id = owners[n]
              /\ cb.list[n].start_page \in owned
              /\ cb.list[n].end_page \in owned
              /\ \A q \in owned : cb.list[n].start_page <= q /\ q <= cb.list[n].end_page

\* Three spine files, the last without pages: two boundaries in spine order.
C24_Witness ==
  /\ doc = D_Reversed
  /\ cb.called
  /\ cb.list = <<[file_id |-> "fA", start_page |-> 3, end_page |-> 3],
                 [file_id |-> "fB", start_page |-> 1, end_page |-> 2]>>

\* ----------------------------------------------------- cache vocabulary
\* pm is the content of the cache text t: t is a JSON object, every key is
\* the decimal text of a page number, and pm maps that number to the entry.
IsCacheContent(pm, t) ==
  LET r == JsonLoads(t) IN
    /\ r.ok
    /\ r.val.kind = "obj"
    /\ \A n \in 1..Len(r.val.keys) : \E q \in 0..MaxKey : r.val.keys[n] = Quote(ToString(q))
    /\ \A q \in 0..MaxKey :
         (q \in DOMAIN pm) <=> (\E n \in 1..Len(r.val.keys) : r.val.keys[n] = Quote(ToString(q)))
    /\ \A n \in 1..Len(r.val.keys) : \A q \in DOMAIN pm :
         r.val.keys[n] = Quote(ToString(q)) => pm[q] = FileIdOf(r.val.items[n])
    /\ \A q \in DOMAIN pm : q \in 0..MaxKey

\* -------------------------------------------------------------------- C25
\* C25: a navigator constructed from the cache that an earlier construction
\* wrote for the same document has a page map identical to the built one,
\* with integer page numbers as keys.
C25_CacheRoundTrip ==
  (nav_pc = "ready" /\ scanned = <<>> /\ cache = CacheFile(CacheText(BuildPageMap(doc), PageOrder(doc)))) =>
    /\ page_map = BuildPageMap(doc)
    /\ \A p \in DOMAIN page_map : p \in 0..MaxKey

\* The scenario document constructed from its own cache, without a scan.
C25_Witness ==
  /\ doc = D_Scenario
  /\ nav_pc = "ready"
  /\ scanned = <<>>
  /\ cache.present
  /\ page_map = (1 :> "fA") @@ (2 :> "fA") @@ (3 :> "fB")

\* -------------------------------------------------------------------- C26
\* C26 as stated: if a cache file is present when the navigator is
\* constructed, the page index is the content of the cache and no content
\* file is scanned.
C26_Original ==
  [][(nav_pc = "new" /\ nav_pc' = "ready" /\ cache.present) =>
       (scanned' = <<>> /\ IsCacheContent(page_map', cache.text))]_vars

\* C26 amended: if a cache file is present and loads (a JSON object whose
\* keys are page numbers), the page index is its content and no content file
\* is scanned; a cache file that does not load is passed over and the index
\* is built by the scan of every spine file.
C26_CacheLoadedWhenItLoads ==
  [][(nav_pc = "new" /\ nav_pc' = "ready" /\ cache.present) =>
       IF /\ JsonLoads(cache.text).ok
          /\ JsonLoads(cache.text).val.kind = "obj"
          /\ \A n \in 1..Len(JsonLoads(cache.text).val.keys) :
               \E q \in 0..MaxKey : JsonLoads(cache.text).val.keys[n] = Quote(ToString(q))
       THEN scanned' = <<>> /\ IsCacheContent(page_map', cache.text)
       ELSE scanned' = doc.spine /\ page_map' = BuildPageMap(doc)]_vars

\* The scenario document constructed on the cache of another document.
C26_Witness ==
  /\ doc = D_Scenario
  /\ nav_pc = "ready"
  /\ scanned = <<>>
  /\ cache = CacheFile(CacheText(BuildPageMap(D_Three), PageOrder(D_Three)))
  /\ page_map = (1 :> "fA") @@ (2 :> "fB") @@ (3 :> "fC")

\* -------------------------------------------------------------------- C27
\* C27: when reading a spine file fails during the index scan, that file
\* contributes no page, every spine file is still scanned in order, the
\* markers of the other files are indexed and construction completes.
C27_ScanSkipsFailedFile ==
  (nav_pc = "ready" /\ \E f \in DOMAIN doc.files : ~doc.files[f].readable) =>
    /\ scanned = doc.spine
    /\ \A p \in DOMAIN page_map : doc.files[page_map[p]].readable
    /\ \A n \in 1..Len(doc.spine) :
         doc.files[doc.spine[n]].readable =>
           \A k \in 1..Len(doc.files[doc.spine[n]].markers) :
             doc.files[doc.spine[n]].markers[k] \in DOMAIN page_map

\* The index of the document whose middle file cannot be read.
C27_Witness ==
  /\ doc = D_Unreadable
  /\ nav_pc = "ready"
  /\ scanned = <<"fA", "fB", "fC">>
  /\ page_map = (1 :> "fA") @@ (3 :> "fC")

\* ------------------------------------------------- hierarchy vocabulary
\* The value of one level (1 section .. 4 topic) of a context.
LevelOf(ctx, l) ==
  CASE l = 1 -> ctx.section
    [] l = 2 -> ctx.subsection
    [] l = 3 -> ctx.subheading
    [] l = 4 -> ctx.topic

\* File f has a heading of level l.
HasLevel(d, f, l) == \E n \in 1..Len(d.files[f].heads) : d.files[f].heads[n].level = l

\* The text of the last heading of level l in file f.
LastTextIn(d, f, l) ==
  LET hs == d.files[f].heads
      n == CHOOSE m \in 1..Len(hs) :
             hs[m].level = l /\ \A j \in (m + 1)..Len(hs) : hs[j].level # l
  IN Some(SelectSeq(hs[n].pieces, LAMBDA x : x # " " /\ x # "\n"))

\* -------------------------------------------------------------------- C28
\* C28: resolve(page) gives each of the four levels the text of the last
\* heading of that level in the nearest spine file at or before the file of
\* the page that has such a heading, and leaves the level unresolved when
\* there is none; h1 Surgery then h1 Medicine in the file of the page give
\* section Medicine.
C28_LastHeadingOfNearestFile ==
  (hc.called /\ hc.page \in DOMAIN page_map) =>
    /\ \A l \in 1..4 :
         LET k == SpineIndex(doc.spine, page_map[hc.page])
             with == {i \in 1..k : HasLevel(doc, doc.spine[i], l)}
         IN IF with = {} THEN ~LevelOf(hc.ctx, l).some
            ELSE LevelOf(hc.ctx, l) =
                   LastTextIn(doc, doc.spine[CHOOSE i \in with : \A j \in with : j <= i], l)
    /\ (doc = D_HMedicine /\ hc.page = 1) => hc.ctx.section = Some(<<"Medicine">>)

\* resolve(1) on the file with the two h1 headings.
C28_Witness ==
  /\ doc = D_HMedicine
  /\ hc.called
  /\ hc.page = 1
  /\ hc.ctx.section.some
  /\ hc.ctx.section.text = <<"Medicine">>

\* -------------------------------------------------------------------- C29
\* C29: a read error on a file visited by resolve raises nothing and does
\* not end the walk: the preceding spine file is visited next, and a level
\* resolved from a file visited earlier keeps that value.
C29_ReadErrorSkippedInWalk ==
  (hc.called /\ \E n \in 1..Len(hc.reads) : ~doc.files[hc.reads[n]].readable) =>
    /\ ~hc.raised
    /\ \A n \in 1..Len(hc.reads) :
         (~doc.files[hc.reads[n]].readable /\ SpineIndex(doc.spine, hc.reads[n]) > 1) =>
           /\ n < Len(hc.reads)
           /\ hc.reads[n + 1] = doc.spine[SpineIndex(doc.spine, hc.reads[n]) - 1]
    /\ \A l \in 1..4 : \A m \in 1..Len(hc.reads) :
         (/\ HasLevel(doc, hc.reads[m], l)
          /\ \A j \in 1..(m - 1) : ~HasLevel(doc, hc.reads[j], l)) =>
           LevelOf(hc.ctx, l) = LastTextIn(doc, hc.reads[m], l)

\* resolve(2): fC gives the subsection, fB cannot be read, fA gives the rest.
C29_Witness ==
  /\ doc = D_HUnreadable
  /\ hc.called
  /\ hc.page = 2
  /\ hc.reads = <<"fC", "fB", "fA">>
  /\ hc.ctx.subsection = Some(<<"Repair">>)
  /\ hc.ctx.section = Some(<<"Surgery">>)

\* -------------------------------------------------------------------- C30
\* The last record a history of chunk results leaves behind: the last record
\* of the last chunk that produced records, None when no chunk did.
LastRecordOf(h) ==
  LET prod == {j \in 1..Len(h) : h[j].codes # <<>>} IN
    IF prod = {} THEN JNull
    ELSE LET j == CHOOSE m \in prod : \A n \in prod : n <= m IN h[j].codes[Len(h[j].codes)]

\* C30: with two runs going on at the same time, each run starts with no
\* last record and no output, and at every moment its last record and its
\* running output are the ones its own chunk results give, whatever the
\* other run has parsed.
C30_StatePrivateToRun ==
  /\ pc = "start" => all_codes = <<>> /\ last_code_context = JNull
  /\ peer.pc = "start" => peer.all_codes = <<>> /\ peer.last_code_context = JNull
  /\ last_code_context = LastRecordOf(hist)
  /\ all_codes = FlattenCodes(hist, 1)
  /\ peer.last_code_context = LastRecordOf(peer.hist)
  /\ peer.all_codes = FlattenCodes(peer.hist, 1)

\* Both runs have parsed records and the last records differ.
C30_Witness ==
  /\ peer.pc # "absent"
  /\ hist # <<>>
  /\ peer.hist # <<>>
  /\ last_code_context # JNull
  /\ peer.last_code_context # JNull
  /\ last_code_context # peer.last_code_context
  /\ all_codes # peer.all_codes

\* -------------------------------------------------------------------- C31
\* The text with at most one leading marker (fence+json, else fence) taken
\* off.
OneLeadingOff(t) ==
  IF StartsWith(t, <<FENCE, "json">>) THEN SubSeq(t, 3, Len(t))
  ELSE IF StartsWith(t, <<FENCE>>) THEN SubSeq(t, 2, Len(t))
  ELSE t

\* The text with at most one trailing fence taken off.
OneTrailingOff(t) == IF EndsWith(t, <<FENCE>>) THEN SubSeq(t, 1, Len(t) - 1) ELSE t

\* C31: the text extract_pages returns for an answer is the stripped answer
\* with at most one leading marker (fence+json or fence) and at most one
\* trailing fence removed; a fence that follows the removed leading marker
\* stays in the text.
C31_AtMostOneMarkerEachEnd ==
  [][\A text \in Responses \cup FenceTexts :
       CallReturns(text) =>
         json_response_text' = Strip(OneTrailingOff(OneLeadingOff(Strip(text))))]_vars

\* -------------------------------------------------------------------- C32
\* C32: for every processed chunk, when the line parse gave records they are
\* the chunk's records (the whole text is not parsed); when it gave none, the
\* records are the elements of the list the whole text parses to, or the one
\* object it parses to, and none for any other value or a parse error.
C32_WholeTextOnlyAfterNoLines ==
  \A k \in 1..Len(hist) :
    LET h == hist[k]
        r == JsonLoads(h.text)
    IN
      /\ h.jsonl # <<>> => h.codes = h.jsonl
      /\ h.jsonl = <<>> =>
           /\ (r.ok /\ IsList(r.val)) => h.codes = r.val.items
           /\ (r.ok /\ IsDict(r.val)) => h.codes = <<r.val>>
           /\ (~r.ok \/ (~IsList(r.val) /\ ~IsDict(r.val))) => h.codes = <<>>

\* One chunk got its records from a list spread over several lines and
\* another from an object spread over several lines.
C32_Witness ==
  /\ \E k \in 1..Len(hist) :
       /\ hist[k].jsonl = <<>>
       /\ IsList(JsonLoads(hist[k].text).val)
       /\ Len(hist[k].codes) > 1
  /\ \E k \in 1..Len(hist) :
       /\ hist[k].jsonl = <<>>
       /\ IsDict(JsonLoads(hist[k].text).val)
       /\ Len(hist[k].codes) = 1

\* -------------------------------------------------------------------- C33
\* All four levels have a heading in the readable files among the first n
\* files the walk visited.
ResolvedAfter(n) ==
  \A l \in 1..4 :
    \E j \in 1..n : doc.files[hc.reads[j]].readable /\ HasLevel(doc, hc.reads[j], l)

\* C33: the walk of resolve(page) visits the file of the page first, then
\* files of strictly decreasing spine position, and visits no file after the
\* one that resolved the fourth level or after the first file of the spine.
C33_WalkBackwardsUntilResolved ==
  (hc.called /\ hc.page \in DOMAIN page_map /\ ~hc.raised) =>
    /\ hc.reads # <<>>
    /\ hc.reads[1] = page_map[hc.page]
    /\ \A n \in 1..(Len(hc.reads) - 1) :
         /\ SpineIndex(doc.spine, hc.reads[n + 1]) < SpineIndex(doc.spine, hc.reads[n])
         /\ ~ResolvedAfter(n)
         /\ SpineIndex(doc.spine, hc.reads[n]) > 1

\* resolve(3): fC and fB resolve the four levels, fA is not visited.
C33_Witness ==
  /\ doc = D_HMidStop
  /\ hc.called
  /\ hc.page = 3
  /\ hc.reads = <<"fC", "fB">>
  /\ AllResolved(hc.ctx)
  /\ hc.ctx.section = Some(<<"Medicine">>)

\* -------------------------------------------------------------------- C34
\* C34: between chunks and at the end of a run, the last record is None
\* exactly when the running output is empty, and otherwise it is the last
\* element of the running output.
C34_LastRecordIsLastOfOutput ==
  pc # "crashed" =>
    /\ (last_code_context = JNull) <=> (all_codes = <<>>)
    /\ all_codes # <<>> => last_code_context = all_codes[Len(all_codes)]

\* Two chunks are done: the first gave several records, the second none.
C34_Witness ==
  /\ pc = "loop"
  /\ Len(hist) = 2
  /\ Len(hist[1].codes) > 1
  /\ hist[2].codes = <<>>
  /\ last_code_context = all_codes[Len(all_codes)]
  /\ last_code_context # all_codes[1]

\* -------------------------------------------------------------------- C35
\* A chunk file, a debug file of the page range of processed chunk k exists.
HasChunkFile(k) == \E f \in chunk_files : f.start = hist[k].start /\ f.end = hist[k].end
HasDebugFile(k) == \E f \in debug_files : f.start = hist[k].start /\ f.end = hist[k].end

\* C35: every chunk whose processing completed has exactly one of the two
\* files of its page range: the chunk file when it produced records, the
\* debug file when it produced none.
C35_ExactlyOneArtifactPerChunk ==
  \A k \in 1..Len(hist) :
    hist[k].result # "CRASHED" =>
      /\ HasChunkFile(k) <=> hist[k].codes # <<>>
      /\ HasDebugFile(k) <=> hist[k].codes = <<>>

\* Two chunks are done, one with records and one without: one chunk file and
\* one debug file.
C35_Witness ==
  /\ Len(hist) = 2
  /\ hist[1].codes = <<>>
  /\ hist[2].codes # <<>>
  /\ hist[2].result = "PARSED"
  /\ HasDebugFile(1) /\ ~HasChunkFile(1)
  /\ HasChunkFile(2) /\ ~HasDebugFile(2)

\* -------------------------------------------------------------------- C36
\* Some spine file of the archive cannot be read.
SomeFileFails(d) == \E n \in 1..Len(d.spine) : ~d.files[d.spine[n]].readable

\* C36: a construction that finds no cache file scans, and when a spine file
\* fails to read the index without that file's pages is saved to the cache
\* all the same (the file being writable); a construction that finds a cache
\* file written by an earlier one takes its index as it is, reads no content
\* file and leaves the cache as it is, whatever the archive now holds.
C36_PartialIndexCachedAndKept ==
  [][(nav_pc = "new" /\ nav_pc' = "ready") =>
       /\ ~cache.present =>
            /\ scanned' = ScanReads(doc, 1)
            /\ \A p \in DOMAIN page_map' : doc.files[page_map'[p]].readable
            /\ (SomeFileFails(doc) /\ Construct(TRUE)) =>
                 /\ cache'.present
                 /\ LoadCache(cache'.text).ok
                 /\ LoadCache(cache'.text).pm = page_map'
       /\ cache.present =>
            /\ page_map' = LoadCache(cache.text).pm
            /\ scanned' = <<>>
            /\ cache' = cache]_vars

\* Every spine file can be read now, the index came from the cache without
\* a scan, and a page marked in the archive is missing from it.
C36_Witness ==
  /\ nav_pc = "ready"
  /\ cache.present
  /\ scanned = <<>>
  /\ ~SomeFileFails(doc)
  /\ \E n \in 1..Len(doc.spine) :
       \E m \in 1..Len(doc.files[doc.spine[n]].markers) :
         ~(doc.files[doc.spine[n]].markers[m] \in DOMAIN page_map)

\* -------------------------------------------------------------------- C37
\* C37: get_text ends its collection before the last spine file only after a
\* successful read of the stop file at or after the start file; when the
\* stop file lies before the start file, or its read fails, every file from
\* the start file through the last file of the spine is attempted and the
\* readable ones are returned.
C37_CollectionEndsOnlyAtStopFile ==
  (nav_pc = "ready" /\ gt.called /\ gt.start \in DOMAIN page_map) =>
    LET sf == page_map[gt.start]
        has_end == (gt.end + 1) \in DOMAIN page_map
        ef == IF has_end THEN page_map[gt.end + 1] ELSE sf
        last == gt.reads[Len(gt.reads)]
        rest == SpineRange(doc.spine, SpineIndex(doc.spine, sf), Len(doc.spine))
    IN
      /\ gt.reads # <<>>
      /\ gt.reads[1] = sf
      /\ last # doc.spine[Len(doc.spine)] =>
           /\ has_end
           /\ last = ef
           /\ doc.files[ef].readable
           /\ SpineIndex(doc.spine, ef) >= SpineIndex(doc.spine, sf)
      /\ (has_end /\ (SpineIndex(doc.spine, ef) < SpineIndex(doc.spine, sf)
                        \/ ~doc.files[ef].readable)) =>
           /\ gt.reads = rest
           /\ gt.text = JoinLines(TextsOf(doc, ReadableOf(doc, rest)))

\* -------------------------------------------------------------------- C38
\* The planner has run and the chunk list is empty.
EmptyPlan == pc \in {"loop", "done"} /\ chunks = <<>>

\* With an empty plan no request was made and no chunk or debug file was
\* written; the run can only go on to its end.
EmptyPlanDoesNothing ==
  /\ calls = <<>>
  /\ hist = <<>>
  /\ chunk_files = {}
  /\ debug_files = {}
  /\ pc # "crashed"
  /\ pc = "loop" => (ENABLED Finish /\ ~ENABLED ExtractPages)

\* C38 as stated: with an empty plan no generation call is made, no chunk or
\* debug file is written, the run reaches its end and a combined file with
\* zero records is written.
C38_Original ==
  EmptyPlan =>
    /\ EmptyPlanDoesNothing
    /\ pc = "done" => combined_file = << <<>> >>

\* C38 amended: the same, the combined file with zero records being written
\* unless the combined output is suppressed, in which case none is written.
C38_EmptyPlanEndsWithEmptyOutput ==
  EmptyPlan =>
    /\ EmptyPlanDoesNothing
    /\ pc = "done" =>
         combined_file = IF args.skip_combined_output THEN <<>> ELSE << <<>> >>

\* A chapter-aligned run whose range overlaps no boundary has ended with a
\* combined file of zero records.
C38_Witness ==
  /\ pc = "done"
  /\ chunks = <<>>
  /\ args.by_chapter
  /\ args.start <= args.end
  /\ ~args.skip_combined_output
  /\ combined_file = << <<>> >>
  /\ calls = <<>>

====
